---------------------------- MODULE Spec2Model ----------------------------
(***************************************************************************)
(* A model of the builder layer of rusty-x86: the LLVM builder adapter     *)
(* (src/src/llvm/backend.rs), the backend-neutral operand dispatch         *)
(* (src/src/backend.rs) and the register model (src/src/types.rs).         *)
(*                                                                         *)
(* Twelve specifications share the module:                                 *)
(*   Spec        one builder emitting into its block function: the basic   *)
(*               blocks and instructions, the insertion point and the      *)
(*               ifelse calls in progress;                                 *)
(*   SpecModule  the requests for block functions made on one LLVM module  *)
(*               (LlvmBuilder::new, get_basic_block_fun, call_basic_block);*)
(*   SpecExec    the value side: what the code emitted by load_register,   *)
(*               store_register, compute_memory_operand_address and        *)
(*               load/store_operand computes on a CPU context;             *)
(*   SpecFlags   the flag slots of the context (load_flag, store_flag) and *)
(*               bool_neg;                                                 *)
(*   SpecMemory  guest memory behind mem_ptr (get_host_pointer,            *)
(*               load_memory, store_memory);                               *)
(*   SpecInstr   the arithmetic and shift instructions, lowered by the     *)
(*               flag recipes onto the builder's integer operations;       *)
(*   SpecLogic   AND, OR, XOR, TEST and NOT and the flags they write;      *)
(*   SpecCmov    CMOVcc, lowered onto ifelse of the live builder;          *)
(*   SpecRep     REPE SCAS over a run of guest memory;                     *)
(*   SpecOperand load_operand and store_operand on memory operands;        *)
(*   SpecBinary  the binary integer operations on operands of any widths;  *)
(*   SpecFrame   what store_register and store_flag leave alone, run on a  *)
(*               context the host passed as a CpuContext record.           *)
(***************************************************************************)
EXTENDS Integers, Sequences, FiniteSets, TLC

VARIABLES
    \* ---- emission side (Spec)
    functions,    \* the module's functions, in creation order; a handle is an index
    blocks,       \* every basic block appended so far; a block id is an index
    builder,      \* the live LlvmBuilder: its function, insertion block, ctx_ptr, mem_ptr
    stack,        \* the ifelse calls in progress, innermost last
    lastIfElse,   \* the ifelse call that returned last
    lastReq,      \* the last request for a block function
    firstHandle,  \* per address, the handle its first request returned (0: none yet)
    aborted,      \* the ControlFlow at which handle_flow hit todo!(), tag "None" if none
    calls,        \* number of direct call_basic_block requests made so far
    emits,        \* number of other instructions the arms have built so far
    \* ---- value side (SpecExec)
    ctx,          \* the context record: field 0 the i32[8] array, field 1 the i8[8] array
    last,         \* the last builder operation, its inputs, its result
    panic,        \* the panic that aborted translation, "none" if none
    stores,       \* number of register (or guest-memory) stores performed so far
    mem           \* guest memory: host byte offset from mem_ptr -> byte, for the bytes written

bvars == <<functions, blocks, builder, stack, lastIfElse, lastReq, firstHandle,
           aborted, calls, emits>>
evars == <<ctx, last, panic, stores, mem>>
vars == <<functions, blocks, builder, stack, lastIfElse, lastReq, firstHandle,
          aborted, calls, emits, ctx, last, panic, stores, mem>>

---------------------------------------------------------------------------
(* Bounds of the model *)

MaxBlocks == 7      \* basic blocks of the block function under construction
MaxEmits == 1       \* instructions the arms build besides their ifelse calls
MaxNew == 3         \* builders created on one module
MaxCalls == 1       \* direct call_basic_block requests
MaxStores == 2      \* register stores run on one context
MaxMemStores == 2   \* stores to guest memory
MaxBinaryOps == 1   \* binary operations built in one run

\* A u32 is the pair of its 16-bit limbs, low limb first (TLC's integers are
\* 32-bit signed and cannot hold 2^32 - 1).
Limb == 65536

\* Guest addresses of basic blocks: 0x00001000, 0x08048000 and 0xffffffff.
Addrs == {<<4096, 0>>, <<32768, 2052>>, <<65535, 65535>>}
NoAddr == <<0, 0>>

---------------------------------------------------------------------------
(* ControlFlow: the exit behaviour an instruction or an ifelse arm reports *)

Flow(tag, target, taken, not_taken, sub) ==
    [tag |-> tag, target |-> target, taken |-> taken, not_taken |-> not_taken,
     sub |-> sub]

NextInstruction == Flow("NextInstruction", NoAddr, NoAddr, NoAddr, <<>>)
DirectJump(t) == Flow("DirectJump", t, NoAddr, NoAddr, <<>>)
IndirectJump == Flow("IndirectJump", NoAddr, NoAddr, NoAddr, <<>>)
ConditionalBranch(t, n) == Flow("ConditionalBranch", NoAddr, t, n, <<>>)
Conditional(list) == Flow("Conditional", NoAddr, NoAddr, NoAddr, list)
Return == Flow("Return", NoAddr, NoAddr, NoAddr, <<>>)
NoFlow == Flow("None", NoAddr, NoAddr, NoAddr, <<>>)

---------------------------------------------------------------------------
(* Block functions of the module *)

FASTCC_CALLING_CONVENTION == 8

HexDigits == <<"0", "1", "2", "3", "4", "5", "6", "7",
               "8", "9", "a", "b", "c", "d", "e", "f">>

\* format!("sub_{:08x}", addr): the name as its sequence of characters
GetNameFor(addr) ==
    <<"s", "u", "b", "_">> \o
    [i \in 1..8 |->
        LET limb == IF i <= 4 THEN addr[2] ELSE addr[1]
            shift == 3 - ((i - 1) % 4)
        IN  HexDigits[((limb \div (16 ^ shift)) % 16) + 1]]

\* Module::get_function: the handle of the function of that name, 0 if none
GetFunction(funs, name) ==
    IF \E i \in 1..Len(funs) : funs[i].name = name
    THEN CHOOSE i \in 1..Len(funs) : funs[i].name = name
    ELSE 0

\* Module::add_function: a new function, of the default calling convention
\* (LLVM renames a function whose name is taken)
AddFunction(funs, name) ==
    Append(funs, [name |-> IF GetFunction(funs, name) = 0
                           THEN name
                           ELSE name \o <<".", HexDigits[(Len(funs) % 16) + 1]>>,
                  cc |-> 0])

\* FunctionValue::set_call_conventions on the function added last
SetCallConventions(funs, conv) ==
    [funs EXCEPT ![Len(funs)].cc = conv]

GetBasicBlockFunInternal_AlwaysAdd(funs, addr) ==
    LET name == GetNameFor(addr)
        res == SetCallConventions(AddFunction(funs, name), FASTCC_CALLING_CONVENTION)
    IN  [funs |-> res, fun |-> Len(res)]

\* get_basic_block_fun_internal: the module after the request and the handle
GetBasicBlockFunInternal(funs, addr) ==
    LET name == GetNameFor(addr)
        fun == GetFunction(funs, name)
    IN  IF fun # 0
        THEN [funs |-> funs, fun |-> fun]
        ELSE LET res == SetCallConventions(AddFunction(funs, name),
                                           FASTCC_CALLING_CONVENTION)
             IN  [funs |-> res, fun |-> Len(res)]

\* get_basic_block_fun: the same request made through a builder
GetBasicBlockFun(funs, addr) == GetBasicBlockFunInternal(funs, addr)

\* FunctionValue::get_nth_param
Param(fun, n) == [fn |-> fun, param |-> n]

\* What a request for the block function of addr leaves on record
Request(first, funs, addr, r) ==
    [addr |-> addr, handle |-> r.fun, added |-> Len(r.funs) - Len(funs),
     repeat |-> first[addr] # 0]

NoteFirst(first, addr, r) ==
    IF first[addr] = 0 THEN [first EXCEPT ![addr] = r.fun] ELSE first

NoReq == [addr |-> NoAddr, handle |-> 0, added |-> 0, repeat |-> FALSE]

---------------------------------------------------------------------------
(* Basic blocks and instructions *)

Instr(op, t1, t2, callee, tail, cc, args) ==
    [cc |-> cc, op |-> op, t1 |-> t1, t2 |-> t2, callee |-> callee,
     tail |-> tail, args |-> args]

Br(dest) == Instr("br", dest, 0, 0, FALSE, 0, <<>>)
CondBr(cond, then_bb, else_bb) ==
    Instr("condbr", then_bb, else_bb, 0, FALSE, 0, <<cond>>)
Call(callee, args, cc, tail) == Instr("call", 0, 0, callee, tail, cc, args)
RetVoid == Instr("ret", 0, 0, 0, FALSE, 0, <<>>)

\* Context::append_basic_block
AppendBasicBlock(blks, fun, name) ==
    Append(blks, [fn |-> fun, name |-> name, instrs |-> <<>>])

\* an instruction built at the insertion point bb
Emit(blks, bb, ins) ==
    [blks EXCEPT ![bb].instrs = Append(@, ins)]

NoBuilder == [function |-> 0, pos |-> 0, ctx_ptr |-> Param(0, 0), mem_ptr |-> Param(0, 1)]

\* Builder::position_at_end
PositionAtEnd(b, bb) == [b EXCEPT !.pos = bb]

\* the number of branch edges from block i into block bb
EdgesFrom(blks, i, bb) ==
    LET ins == blks[i].instrs
    IN  Cardinality({k \in 1..Len(ins) : ins[k].op \in {"br", "condbr"} /\ ins[k].t1 = bb})
        + Cardinality({k \in 1..Len(ins) : ins[k].op = "condbr" /\ ins[k].t2 = bb})

RECURSIVE SumEdges(_, _, _)
SumEdges(blks, n, bb) ==
    IF n = 0 THEN 0 ELSE EdgesFrom(blks, n, bb) + SumEdges(blks, n - 1, bb)

\* the number of incoming edges of block bb
IncomingEdges(blks, bb) == SumEdges(blks, Len(blks), bb)

---------------------------------------------------------------------------
(* The requests made on one module *)

NoIfElse ==
    [res |-> <<>>, done |-> FALSE, branch_bb |-> 0, true_bb |-> 0,
     false_bb |-> 0, cont_bb |-> 0, phase |-> "none", arms |-> <<>>,
     thenCalls |-> 0, elseCalls |-> 0, thenAt |-> 0, elseAt |-> 0,
     fresh |-> TRUE, result |-> NoFlow, posAtReturn |-> 0]

\* an empty module, no builder yet
InitModule ==
    /\ functions = <<>>
    /\ blocks = <<>>
    /\ builder = NoBuilder
    /\ stack = <<>>
    /\ lastIfElse = NoIfElse
    /\ lastReq = NoReq
    /\ firstHandle = [a \in Addrs |-> 0]
    /\ aborted = NoFlow
    /\ calls = 0
    /\ emits = 0

Running == aborted.tag = "None"

\* LlvmBuilder::new(context, module, types, basic_block_addr)
New(addr) ==
    /\ Running
    /\ stack = <<>>
    /\ Len(blocks) < MaxNew
    /\ LET r == GetBasicBlockFunInternal(functions, addr)
           blks == AppendBasicBlock(blocks, r.fun, "entry")
       IN  /\ functions' = r.funs
           /\ blocks' = blks
           /\ builder' = PositionAtEnd([function |-> r.fun, pos |-> 0,
                                        ctx_ptr |-> Param(r.fun, 0),
                                        mem_ptr |-> Param(r.fun, 1)], Len(blks))
           /\ lastReq' = Request(firstHandle, functions, addr, r)
           /\ firstHandle' = NoteFirst(firstHandle, addr, r)
    /\ UNCHANGED <<stack, lastIfElse, aborted, calls, emits>>
    /\ UNCHANGED evars

\* LlvmBuilder::get_basic_block_fun(addr) on the live builder
GetFun(addr) ==
    /\ Running
    /\ builder.function # 0
    /\ LET r == GetBasicBlockFun(functions, addr)
       IN  /\ functions' = r.funs
           /\ lastReq' = Request(firstHandle, functions, addr, r)
           /\ firstHandle' = NoteFirst(firstHandle, addr, r)
    /\ UNCHANGED <<blocks, builder, stack, lastIfElse, aborted, calls, emits>>
    /\ UNCHANGED evars


CallBasicBlock_NoTail(funs, blks, b, target, tail_call) ==
    LET r == GetBasicBlockFun(funs, target)
    IN  [funs |-> r.funs, fun |-> r.fun,
         blks |-> Emit(blks, b.pos,
                       Call(r.fun, <<b.ctx_ptr, b.mem_ptr>>,
                            FASTCC_CALLING_CONVENTION, FALSE))]

\* call_basic_block(target, tail_call): the module and the blocks after it
CallBasicBlock(funs, blks, b, target, tail_call) ==
    LET r == GetBasicBlockFun(funs, target)
    IN  [funs |-> r.funs, fun |-> r.fun,
         blks |-> Emit(blks, b.pos,
                       Call(r.fun, <<b.ctx_ptr, b.mem_ptr>>,
                            FASTCC_CALLING_CONVENTION, tail_call))]

\* a direct call_basic_block request on the live builder
CallBlock(target, tail_call) ==
    /\ Running
    /\ builder.function # 0
    /\ calls < MaxCalls
    /\ LET c == CallBasicBlock(functions, blocks, builder, target, tail_call)
           r == [funs |-> c.funs, fun |-> c.fun]
       IN  /\ functions' = c.funs
           /\ blocks' = c.blks
           /\ lastReq' = Request(firstHandle, functions, target, r)
           /\ firstHandle' = NoteFirst(firstHandle, target, r)
    /\ calls' = calls + 1
    /\ UNCHANGED <<builder, stack, lastIfElse, aborted, emits>>
    /\ UNCHANGED evars

---------------------------------------------------------------------------
(* ifelse(cond, iftrue, iffalse).  The two arms are closures that drive   *)
(* the same builder, so one call is three steps of the model: the call up *)
(* to the invocation of iftrue, the return of iftrue up to the invocation *)
(* of iffalse, and the return of iffalse up to the return of ifelse.      *)

\* the 1-bit value ifelse is called on (opaque to the builder)
Conds == {"cc"}

\* the blocks the builder is moved to before iftrue, before iffalse, on return
ThenBlock(f) == f.true_bb
ElseBlock_Then(f) == f.true_bb
ElseBlock(f) == f.false_bb
MergeBlock(f) == f.cont_bb

\* the closure handle_flow: the arm's terminator, then the arm's exits
HandleFlow(funs, blks, b, cont_bb, res, flow) ==
    LET term ==
            CASE flow.tag = "NextInstruction" ->
                     [ok |-> TRUE, funs |-> funs,
                      blks |-> Emit(blks, b.pos, Br(cont_bb))]
              [] flow.tag = "DirectJump" ->
                     LET c == CallBasicBlock(funs, blks, b, flow.target, TRUE)
                     IN  [ok |-> TRUE, funs |-> c.funs,
                          blks |-> Emit(c.blks, b.pos, RetVoid)]
              [] OTHER ->   \* todo!()
                     [ok |-> FALSE, funs |-> funs, blks |-> blks]
    IN  [ok |-> term.ok, funs |-> term.funs, blks |-> term.blks,
         res |-> IF ~term.ok THEN res
                 ELSE IF flow.tag = "Conditional" THEN res \o flow.sub
                 ELSE Append(res, flow)]

\* the flows an arm may hand back: every variant, and the result of an
\* ifelse that has returned
ArmFlows ==
    {NextInstruction, IndirectJump, Return}
    \cup {DirectJump(a) : a \in Addrs}
    \cup {ConditionalBranch(a, a) : a \in Addrs}
    \cup (IF lastIfElse.done THEN {lastIfElse.result} ELSE {})

\* ifelse up to the invocation of iftrue
IfElseBegin(cond) ==
    /\ Running
    /\ builder.function # 0
    /\ Len(blocks) + 3 <= MaxBlocks
    /\ LET true_bb == Len(blocks) + 1
           false_bb == Len(blocks) + 2
           cont_bb == Len(blocks) + 3
           blks3 == AppendBasicBlock(
                        AppendBasicBlock(
                            AppendBasicBlock(blocks, builder.function, ""),
                            builder.function, ""),
                        builder.function, "")
           blks == Emit(blks3, builder.pos, CondBr(cond, true_bb, false_bb))
           f == [done |-> FALSE, branch_bb |-> builder.pos, true_bb |-> true_bb,
                 false_bb |-> false_bb, cont_bb |-> cont_bb, phase |-> "then",
                 res |-> <<>>, arms |-> <<>>, thenCalls |-> 0, elseCalls |-> 0,
                 thenAt |-> 0, elseAt |-> 0, fresh |-> TRUE, result |-> NoFlow,
                 posAtReturn |-> 0]
           b == PositionAtEnd(builder, ThenBlock(f))
       IN  /\ blocks' = blks
           /\ builder' = b
           \* iftrue is invoked: where the builder stands, and on what
           /\ stack' = Append(stack,
                  [f EXCEPT !.thenCalls = 1,
                            !.thenAt = b.pos,
                            !.fresh = /\ b.pos > Len(blocks)
                                      /\ blks[b.pos].instrs = <<>>])
    /\ UNCHANGED <<functions, lastIfElse, lastReq, firstHandle, aborted, calls, emits>>
    /\ UNCHANGED evars

\* an arm returns flow: handle_flow, then on to iffalse or out of ifelse
ArmReturn(flow) ==
    /\ Running
    /\ stack # <<>>
    /\ LET n == Len(stack)
           f == stack[n]
           h == HandleFlow(functions, blocks, builder, f.cont_bb, f.res, flow)
           arm == [flow |-> flow, block |-> builder.pos,
                   from |-> Len(blocks[builder.pos].instrs)]
           r == [funs |-> h.funs, fun |-> GetFunction(h.funs, GetNameFor(flow.target))]
           be == PositionAtEnd(builder, ElseBlock(f))
           bm == PositionAtEnd(builder, MergeBlock(f))
       IN  IF ~h.ok
           THEN /\ aborted' = flow
                /\ UNCHANGED <<functions, blocks, builder, stack, lastIfElse,
                               lastReq, firstHandle>>
           ELSE /\ functions' = h.funs
                /\ blocks' = h.blks
                /\ IF flow.tag = "DirectJump"
                   THEN /\ lastReq' = Request(firstHandle, functions, flow.target, r)
                        /\ firstHandle' = NoteFirst(firstHandle, flow.target, r)
                   ELSE UNCHANGED <<lastReq, firstHandle>>
                /\ IF f.phase = "then"
                   THEN /\ builder' = be
                        \* iffalse is invoked
                        /\ stack' = [stack EXCEPT ![n] =
                               [f EXCEPT !.phase = "else",
                                         !.res = h.res,
                                         !.arms = Append(@, arm),
                                         !.elseCalls = @ + 1,
                                         !.elseAt = be.pos,
                                         !.fresh = /\ @
                                                   /\ be.pos >= f.true_bb
                                                   /\ h.blks[be.pos].instrs = <<>>]]
                        /\ UNCHANGED lastIfElse
                   ELSE /\ builder' = bm
                        /\ stack' = SubSeq(stack, 1, n - 1)
                        /\ lastIfElse' =
                               [f EXCEPT !.done = TRUE,
                                         !.phase = "done",
                                         !.res = h.res,
                                         !.arms = Append(@, arm),
                                         !.result = Conditional(h.res),
                                         !.posAtReturn = bm.pos]
                /\ UNCHANGED aborted
    /\ UNCHANGED <<calls, emits>>
    /\ UNCHANGED evars

\* an arm builds an instruction that is no terminator (a store, as
\* store_register does)
EmitOther ==
    /\ Running
    /\ stack # <<>>
    /\ emits < MaxEmits
    /\ blocks' = Emit(blocks, builder.pos, Instr("store", 0, 0, 0, FALSE, 0, <<>>))
    /\ emits' = emits + 1
    /\ UNCHANGED <<functions, builder, stack, lastIfElse, lastReq, firstHandle,
                   aborted, calls>>
    /\ UNCHANGED evars

---------------------------------------------------------------------------
(* Integer widths, registers and IR values *)

IntTypes == {"I8", "I16", "I32", "I64"}

\* IntType::bit_width
BitWidth(ty) ==
    CASE ty = "I8" -> 8 [] ty = "I16" -> 16 [] ty = "I32" -> 32 [] ty = "I64" -> 64

FullSizeRegisters == {"EAX", "EBX", "ECX", "EDX", "ESP", "EBP", "ESI", "EDI"}
WordRegisters == {"AX", "BX", "CX", "DX", "SP", "BP", "SI", "DI"}
HighByteRegisters == {"AH", "BH", "CH", "DH"}
LowByteRegisters == {"AL", "BL", "CL", "DL"}
Registers == FullSizeRegisters \cup WordRegisters \cup HighByteRegisters
             \cup LowByteRegisters

\* Register::size
Size(reg) ==
    IF reg \in FullSizeRegisters THEN "I32"
    ELSE IF reg \in WordRegisters THEN "I16"
    ELSE "I8"

\* enum FullSizeGeneralPurposeRegister: the number of each variant
GpNumber(gp) ==
    CASE gp = "EAX" -> 0 [] gp = "EBX" -> 1 [] gp = "ECX" -> 2 [] gp = "EDX" -> 3
      [] gp = "ESP" -> 4 [] gp = "EBP" -> 5 [] gp = "ESI" -> 6 [] gp = "EDI" -> 7

\* FullSizeGeneralPurposeRegister::try_from(Register)
TryFromRegister(reg) ==
    IF reg \in FullSizeRegisters THEN [ok |-> TRUE, gp |-> reg]
    ELSE [ok |-> FALSE, gp |-> "EAX"]

\* An IR value: its width and its bits as 16-bit limbs, low limb first
\* (one limb below 256 for I8, one for I16, two for I32, four for I64).
NLimbs(ty) == (BitWidth(ty) + 15) \div 16
Val(ty, limbs) == [ty |-> ty, limbs |-> limbs]
NoVal == Val("I8", <<0>>)

\* the low BitWidth(ty) bits of a u64 given as four limbs
Wrap(ty, limbs) ==
    IF ty = "I8" THEN <<limbs[1] % 256>> ELSE SubSeq(limbs, 1, NLimbs(ty))

\* `v as u64` of an unsigned value
AsU64(limbs) == limbs \o [i \in 1..(4 - Len(limbs)) |-> 0]

\* make_int_value(ty, value, false): IntType::const_int keeps the low bits
MakeIntValue(ty, value) == Val(ty, Wrap(ty, value))
MakeU8(v) == MakeIntValue("I8", AsU64(<<v>>))
MakeU16(v) == MakeIntValue("I16", AsU64(<<v>>))
MakeU32(v) == MakeIntValue("I32", AsU64(v))

RECURSIVE AddLimbs(_, _, _, _)
AddLimbs(a, b, i, carry) ==
    IF i > Len(a) THEN <<>>
    ELSE LET sum == a[i] + b[i] + carry
         IN  <<sum % Limb>> \o AddLimbs(a, b, i + 1, sum \div Limb)

\* add(lhs, rhs): build_int_add on two values of one width, modulo 2^width
Add(lhs, rhs) ==
    Val(lhs.ty, Wrap(lhs.ty, AsU64(AddLimbs(lhs.limbs, rhs.limbs, 1, 0))))

---------------------------------------------------------------------------
(* The context record and the code emitted to reach into it *)

\* Types::new: struct context { [8 x i32], [8 x i8] }; a slot is named by the
\* field and the index a getelementptr selects
ZeroContext ==
    [field \in 0..1 |-> IF field = 0 THEN [i \in 0..7 |-> <<0, 0>>]
                                     ELSE [i \in 0..7 |-> <<0>>]]
FieldType(field) == IF field = 0 THEN "I32" ELSE "I8"

\* build_ctx_gp_gep: gep ctx_ptr, [0, 0, reg as u64]
BuildCtxGpGep(gp) == [field |-> 0, index |-> GpNumber(gp)]

\* build_load / build_store through such a pointer
BuildLoad(c, ptr) == Val(FieldType(ptr.field), c[ptr.field][ptr.index])
BuildStore(c, ptr, value) == [c EXCEPT ![ptr.field][ptr.index] = value.limbs]

\* load_register(register): the value loaded, or the panic of todo!()
LoadRegister(c, register) ==
    LET t == TryFromRegister(register)
    IN  IF t.ok
        THEN [panic |-> "none", val |-> BuildLoad(c, BuildCtxGpGep(t.gp))]
        ELSE [panic |-> "todo", val |-> NoVal]

\* store_register(register, value): the context after, or the panic of todo!()
StoreRegister(c, register, value) ==
    LET t == TryFromRegister(register)
    IN  IF t.ok
        THEN [panic |-> "none", ctx |-> BuildStore(c, BuildCtxGpGep(t.gp), value)]
        ELSE [panic |-> "todo", ctx |-> c]

---------------------------------------------------------------------------
(* Operand dispatch (trait Builder's provided methods) *)

\* MemoryOperand.displacement is an i64: its high 32 bits as a signed number
\* and its low 32 bits as limbs
Disp(hi, lo) == [hi |-> hi, lo |-> lo]

\* i32::try_from(displacement) succeeds
FitsI32(d) == \/ d.hi = 0 /\ d.lo[2] < 32768
              \/ d.hi = -1 /\ d.lo[2] >= 32768

MemoryOperand(base, displacement, scale, index, size, segment) ==
    [index |-> index, base |-> base, displacement |-> displacement,
     scale |-> scale, size |-> size, segment |-> segment]

\* compute_memory_operand_address(op): the I32 address, or the panic
ComputeMemoryOperandAddress(c, op) ==
    IF op.index # "None" THEN [panic |-> "assert index.is_none", val |-> NoVal]
    ELSE IF op.segment # "None" THEN [panic |-> "assert segment.is_none", val |-> NoVal]
    ELSE IF ~FitsI32(op.displacement) THEN [panic |-> "unwrap", val |-> NoVal]
    ELSE LET res == MakeU32(op.displacement.lo)
         IN  IF op.base # "None"
             THEN LET base_val == LoadRegister(c, op.base)
                  IN  IF base_val.panic # "none"
                      THEN [panic |-> base_val.panic, val |-> NoVal]
                      ELSE [panic |-> "none", val |-> Add(res, base_val.val)]
             ELSE [panic |-> "none", val |-> res]

\* Operand: the register and immediate variants and FarBranch
RegisterOperand(reg) == [reg |-> reg, kind |-> "Register", imm |-> <<0>>]
Immediate8(v) == [reg |-> "None", kind |-> "Immediate8", imm |-> <<v>>]
Immediate16(v) == [reg |-> "None", kind |-> "Immediate16", imm |-> <<v>>]
Immediate32(v) == [reg |-> "None", kind |-> "Immediate32", imm |-> v]
FarBranch == [reg |-> "None", kind |-> "FarBranch", imm |-> <<0>>]

\* load_operand(operand) on a register, an immediate or a far branch
LoadOperand(c, operand) ==
    CASE operand.kind = "Register" -> LoadRegister(c, operand.reg)
      [] operand.kind = "Immediate8" -> [panic |-> "none", val |-> MakeU8(operand.imm[1])]
      [] operand.kind = "Immediate16" -> [panic |-> "none", val |-> MakeU16(operand.imm[1])]
      [] operand.kind = "Immediate32" -> [panic |-> "none", val |-> MakeU32(operand.imm)]
      [] OTHER -> [panic |-> "Unsupported load operand", val |-> NoVal]

\* store_operand(operand, value) on a register, an immediate or a far branch
StoreOperand(c, operand, value) ==
    CASE operand.kind = "Register" -> StoreRegister(c, operand.reg, value)
      [] OTHER -> [panic |-> "Unsupported store operand", ctx |-> c]

\* MOV dst, src: the source is loaded and stored to the destination
MovLowering(c, dst, src) ==
    LET v == LoadOperand(c, src)
    IN  IF v.panic # "none" THEN [panic |-> v.panic, ctx |-> c]
        ELSE StoreOperand(c, dst, v.val)

---------------------------------------------------------------------------
(* The value side: builder operations run on a zero-initialized context *)

\* the 32-bit values 0x41424344, 0xffffffff; 16- and 8-bit values
Values32 == {<<17220, 16706>>, <<65535, 65535>>}
Values16 == {42, 65535}
Values8 == {42, 248}

ValuesOf(ty) ==
    CASE ty = "I32" -> {Val("I32", v) : v \in Values32}
      [] ty = "I16" -> {Val("I16", <<v>>) : v \in Values16}
      [] ty = "I8" -> {Val("I8", <<v>>) : v \in Values8}

ImmediatesOf(ty) ==
    CASE ty = "I32" -> {Immediate32(v) : v \in Values32}
      [] ty = "I16" -> {Immediate16(v) : v \in Values16}
      [] ty = "I8" -> {Immediate8(v) : v \in Values8}

\* memory operands: [base + index*scale + disp] with displacements 7, 0, -1
\* and 0x80000000 (which is no i32)
Displacements == {Disp(0, <<7, 0>>), Disp(0, <<0, 0>>), Disp(-1, <<65535, 65535>>),
                  Disp(0, <<0, 32768>>)}
MemoryOperands ==
    {MemoryOperand(b, d, sc, i, "None", sg) :
        b \in {"None", "EAX", "EBX", "BX"}, d \in Displacements, sc \in {1, 4},
        i \in {"None", "EBX"}, sg \in {"None", "FS"}}

NoOperand == RegisterOperand("None")
NoMemoryOperand == MemoryOperand("None", Disp(0, <<0, 0>>), 1, "None", "None", "None")

Op(op, reg, arg, dst, src, mop, res, before) ==
    [op |-> op, reg |-> reg, arg |-> arg, dst |-> dst, src |-> src, mop |-> mop,
     res |-> res, before |-> before]

InitExec ==
    /\ ctx = ZeroContext
    /\ last = Op("none", "None", NoVal, NoOperand, NoOperand, NoMemoryOperand,
                 NoVal, ZeroContext)
    /\ panic = "none"
    /\ stores = 0
    /\ mem = [o \in {} |-> 0]

\* load_register(r), and the emitted load run on the context
DoLoadRegister(r) ==
    /\ panic = "none"
    /\ LET res == LoadRegister(ctx, r)
       IN  /\ last' = Op("load_register", r, NoVal, NoOperand, NoOperand,
                         NoMemoryOperand, res.val, ctx)
           /\ panic' = res.panic
    /\ UNCHANGED <<ctx, stores>>
    /\ UNCHANGED <<bvars, mem>>

\* store_register(r, v), and the emitted store run on the context
DoStoreRegister(r, v) ==
    /\ panic = "none"
    /\ stores < MaxStores
    /\ LET res == StoreRegister(ctx, r, v)
       IN  /\ last' = Op("store_register", r, v, NoOperand, NoOperand,
                         NoMemoryOperand, NoVal, ctx)
           /\ panic' = res.panic
           /\ ctx' = res.ctx
           /\ stores' = IF res.panic = "none" THEN stores + 1 ELSE stores
    /\ UNCHANGED <<bvars, mem>>

\* compute_memory_operand_address(op), and the emitted code run on the context
DoComputeAddress(op) ==
    /\ panic = "none"
    /\ LET res == ComputeMemoryOperandAddress(ctx, op)
       IN  /\ last' = Op("compute_memory_operand_address", "None", NoVal, NoOperand,
                         NoOperand, op, res.val, ctx)
           /\ panic' = res.panic
    /\ UNCHANGED <<ctx, stores>>
    /\ UNCHANGED <<bvars, mem>>

\* mov dst, src is lowered and run on the context
DoMov(dst, src) ==
    /\ panic = "none"
    /\ stores < MaxStores
    /\ LET res == MovLowering(ctx, dst, src)
       IN  /\ last' = Op("mov", "None", NoVal, dst, src, NoMemoryOperand, NoVal, ctx)
           /\ panic' = res.panic
           /\ ctx' = res.ctx
           /\ stores' = IF res.panic = "none" THEN stores + 1 ELSE stores
    /\ UNCHANGED <<bvars, mem>>

---------------------------------------------------------------------------
(* Specifications *)

\* the state LlvmBuilder::new(addr) leaves on a fresh module
InitBuilder ==
    \E addr \in Addrs :
        LET first == [a \in Addrs |-> 0]
            r == GetBasicBlockFunInternal(<<>>, addr)
            blks == AppendBasicBlock(<<>>, r.fun, "entry")
        IN  /\ functions = r.funs
            /\ blocks = blks
            /\ builder = PositionAtEnd([function |-> r.fun, pos |-> 0,
                                        ctx_ptr |-> Param(r.fun, 0),
                                        mem_ptr |-> Param(r.fun, 1)], Len(blks))
            /\ stack = <<>>
            /\ lastIfElse = NoIfElse
            /\ lastReq = Request(first, <<>>, addr, r)
            /\ firstHandle = NoteFirst(first, addr, r)
            /\ aborted = NoFlow
            /\ calls = 0
            /\ emits = 0

Init == InitBuilder /\ InitExec

Next ==
    \/ \E c \in Conds : IfElseBegin(c)
    \/ \E fl \in ArmFlows : ArmReturn(fl)
    \/ EmitOther

Spec == Init /\ [][Next]_vars

NextModule ==
    \/ \E a \in Addrs : New(a)
    \/ \E a \in Addrs : GetFun(a)
    \/ \E a \in Addrs, t \in BOOLEAN : CallBlock(a, t)

InitEmpty == InitModule /\ InitExec

SpecModule == InitEmpty /\ [][NextModule]_vars

NextExec ==
    \/ \E r \in Registers : DoLoadRegister(r)
    \/ \E r \in Registers : \E v \in ValuesOf(Size(r)) : DoStoreRegister(r, v)
    \/ \E op \in MemoryOperands : DoComputeAddress(op)
    \/ \E r \in Registers :
           \E src \in ImmediatesOf(Size(r)) \cup {RegisterOperand("ECX"), FarBranch} :
               DoMov(RegisterOperand(r), src)

SpecExec == InitEmpty /\ [][NextExec]_vars

---------------------------------------------------------------------------
(* Properties of ifelse (checked under Spec) *)

\* the arms of every ifelse call, in progress or returned last
Frames == {stack[i] : i \in 1..Len(stack)} \cup
          (IF lastIfElse.done THEN {lastIfElse} ELSE {})

\* the exits one arm's flow contributes, nested Conditionals flattened
Flat(flow) == IF flow.tag = "Conditional" THEN flow.sub ELSE <<flow>>

\* C1: when ifelse returns, if at least one arm returned DirectJump the merge
\* block the builder is left at has an incoming edge (or the builder is not
\* left at the merge block); if both arms returned NextInstruction the merge
\* block has exactly two incoming edges, one from each arm.
C1_MergeBlockReachable ==
    lastIfElse.done =>
        LET l == lastIfElse.arms[1]
            r == lastIfElse.arms[2]
            n == IncomingEdges(blocks, lastIfElse.cont_bb)
        IN  /\ (l.flow.tag = "DirectJump" \/ r.flow.tag = "DirectJump") =>
                   (n >= 1 \/ lastIfElse.posAtReturn # lastIfElse.cont_bb)
            /\ (l.flow.tag = "NextInstruction" /\ r.flow.tag = "NextInstruction") =>
                   /\ n = 2
                   /\ l.block # r.block
                   /\ EdgesFrom(blocks, l.block, lastIfElse.cont_bb) = 1
                   /\ EdgesFrom(blocks, r.block, lastIfElse.cont_bb) = 1

\* C2: ifelse returns Conditional(left exits followed by right exits), an arm
\* that returned Conditional(sub) contributing the elements of sub; an arm
\* that returns a Conditional (the result of a nested ifelse) is accepted.
C2_ConditionalFlattened ==
    /\ aborted.tag # "Conditional"
    /\ lastIfElse.done =>
           lastIfElse.result =
               Conditional(Flat(lastIfElse.arms[1].flow) \o Flat(lastIfElse.arms[2].flow))

FrameInvokedOnce(f) ==
    /\ f.thenCalls = 1
    /\ f.elseCalls = (IF f.phase = "then" THEN 0 ELSE 1)
    /\ f.thenAt = f.true_bb
    /\ f.elseCalls = 1 => f.elseAt = f.false_bb
    /\ Cardinality({f.branch_bb, f.true_bb, f.false_bb, f.cont_bb}) = 4
    /\ f.fresh
    /\ Len(f.arms) = (IF f.phase = "then" THEN 0 ELSE IF f.phase = "else" THEN 1 ELSE 2)

\* C3: in one ifelse call iftrue is invoked once, then iffalse once, each with
\* the builder at the end of its own freshly appended, empty block, distinct
\* from each other, from the merge block and from the block holding the
\* conditional branch; when ifelse returns the builder is at the merge block.
C3_ArmsInvokedOnceInFreshBlocks ==
    /\ \A f \in Frames : FrameInvokedOnce(f)
    /\ lastIfElse.done =>
           /\ lastIfElse.thenCalls = 1
           /\ lastIfElse.elseCalls = 1
           /\ lastIfElse.posAtReturn = lastIfElse.cont_bb
    /\ (lastIfElse.done /\ stack = <<>> /\ emits = 0) =>
           builder.pos = lastIfElse.cont_bb \/ blocks[lastIfElse.cont_bb].instrs # <<>>

C3_Witness ==
    /\ lastIfElse.done
    /\ lastIfElse.thenCalls = 1
    /\ lastIfElse.elseCalls = 1
    /\ builder.pos = lastIfElse.cont_bb
    /\ Len(stack) = 1
    /\ stack[1].phase = "else"

\* what handle_flow left at the end of an arm's block
ArmTail(arm) ==
    SubSeq(blocks[arm.block].instrs, arm.from + 1, Len(blocks[arm.block].instrs))

ArmTerminated(f, arm) ==
    LET tl == ArmTail(arm)
        fn == blocks[arm.block].fn
    IN  CASE arm.flow.tag = "NextInstruction" ->
                 /\ tl = <<Br(f.cont_bb)>>
                 /\ EdgesFrom(blocks, arm.block, f.cont_bb) = 1
          [] arm.flow.tag = "DirectJump" ->
                 /\ Len(tl) = 2
                 /\ tl[1].op = "call"
                 /\ tl[1].callee \in 1..Len(functions)
                 /\ functions[tl[1].callee].name = GetNameFor(arm.flow.target)
                 /\ tl[1].tail = TRUE
                 /\ tl[1].args = <<Param(fn, 0), Param(fn, 1)>>
                 /\ tl[2] = RetVoid
                 /\ EdgesFrom(blocks, arm.block, f.cont_bb) = 0
          [] OTHER -> TRUE

\* C4: an arm that returned NextInstruction ends in exactly one unconditional
\* branch to the merge block; an arm that returned DirectJump(t) ends in a call
\* of the block function of t, tail-call flag set, the builder's context and
\* guest-memory pointers as arguments, followed by a void return, and has no
\* edge to the merge block.
C4_ArmTerminators ==
    \A f \in Frames : \A i \in 1..Len(f.arms) : ArmTerminated(f, f.arms[i])

C4_Witness ==
    /\ lastIfElse.done
    /\ lastIfElse.arms[1].flow.tag = "DirectJump"
    /\ lastIfElse.arms[1].from > 0
    /\ lastIfElse.arms[2].flow.tag = "NextInstruction"
    /\ Len(functions) = 2

\* C5: an arm that returns Return is accepted: its block ends in a return
\* instruction, it has no edge to the merge block, and ifelse completes with
\* Return among the exits of its Conditional.
C5_ReturnArmTerminated ==
    /\ aborted.tag # "Return"
    /\ \A f \in Frames : \A i \in 1..Len(f.arms) :
           f.arms[i].flow.tag = "Return" =>
               /\ ArmTail(f.arms[i]) = <<RetVoid>>
               /\ EdgesFrom(blocks, f.arms[i].block, f.cont_bb) = 0
               /\ f.done => \E k \in 1..Len(f.result.sub) : f.result.sub[k] = Return

---------------------------------------------------------------------------
(* Properties of the block functions of a module (checked under SpecModule) *)

\* C6: after any sequence of LlvmBuilder::new, get_basic_block_fun and
\* call_basic_block requests, a repeated request for an address returns the
\* handle the first request returned and adds no function, and the module
\* holds at most one function per address.
C6_BlockFunctionIdempotent ==
    /\ lastReq.repeat =>
           /\ lastReq.handle = firstHandle[lastReq.addr]
           /\ lastReq.added = 0
    /\ \A a \in Addrs :
           /\ Cardinality({i \in 1..Len(functions) :
                              functions[i].name = GetNameFor(a)}) <= 1
           /\ firstHandle[a] # 0 =>
                  /\ functions[firstHandle[a]].name = GetNameFor(a)
                  /\ GetBasicBlockFunInternal(functions, a) =
                         [funs |-> functions, fun |-> firstHandle[a]]
    /\ \A i \in 1..Len(functions) :
           \E a \in Addrs : functions[i].name = GetNameFor(a)

C6_Witness ==
    /\ lastReq.repeat
    /\ lastReq.handle = 1
    /\ Len(functions) = 3
    /\ Len(blocks) = 2
    /\ calls = 1

---------------------------------------------------------------------------
(* Properties of the value side (checked under SpecExec) *)

\* The alias table: the parent of a register and the bits of the parent it
\* names (low 16; low 8; high 8 of the low 16).
AliasParent(reg) ==
    CASE reg \in {"EAX", "AX", "AH", "AL"} -> "EAX"
      [] reg \in {"EBX", "BX", "BH", "BL"} -> "EBX"
      [] reg \in {"ECX", "CX", "CH", "CL"} -> "ECX"
      [] reg \in {"EDX", "DX", "DH", "DL"} -> "EDX"
      [] reg \in {"ESP", "SP"} -> "ESP"
      [] reg \in {"EBP", "BP"} -> "EBP"
      [] reg \in {"ESI", "SI"} -> "ESI"
      [] reg \in {"EDI", "DI"} -> "EDI"

\* the bits of the parent's value that reg names
AliasBits(parent, reg) ==
    IF reg \in FullSizeRegisters THEN parent
    ELSE IF reg \in WordRegisters THEN <<parent[1]>>
    ELSE IF reg \in LowByteRegisters THEN <<parent[1] % 256>>
    ELSE <<(parent[1] \div 256) % 256>>

\* the parent's value with the bits reg names replaced by v
AliasInsert(parent, reg, v) ==
    IF reg \in FullSizeRegisters THEN v
    ELSE IF reg \in WordRegisters THEN <<v[1], parent[2]>>
    ELSE IF reg \in LowByteRegisters
         THEN <<(parent[1] \div 256) * 256 + v[1], parent[2]>>
    ELSE <<v[1] * 256 + (parent[1] % 256), parent[2]>>

\* the value of a register of the context, zero for an absent one
RegisterOrZero(c, reg) ==
    IF reg = "None" THEN Val("I32", <<0, 0>>)
    ELSE Val("I32", c[0][GpNumber(reg)])

\* v * scale for a scale of 1, 2, 4 or 8, modulo 2^32
RECURSIVE Scaled(_, _)
Scaled(v, scale) == IF scale = 1 THEN v ELSE Scaled(Add(v, v), scale \div 2)

\* C7: for a memory operand with optional base, optional index, a scale of
\* 1, 2, 4 or 8 and a displacement in the signed 32-bit range,
\* compute_memory_operand_address yields the I32 value
\* (base + index*scale + displacement) mod 2^32, an absent register counting 0;
\* an operand with an index register is accepted.
C7_EffectiveAddress ==
    (/\ last.op = "compute_memory_operand_address"
     /\ last.mop.base \in FullSizeRegisters \cup {"None"}
     /\ last.mop.index \in FullSizeRegisters \cup {"None"}
     /\ last.mop.segment = "None"
     /\ FitsI32(last.mop.displacement)) =>
        /\ panic = "none"
        /\ last.res =
               Add(Add(RegisterOrZero(last.before, last.mop.base),
                       Scaled(RegisterOrZero(last.before, last.mop.index),
                              last.mop.scale)),
                   Val("I32", last.mop.displacement.lo))

\* C8: store_register on a sub-register alias replaces the aliased bits of the
\* parent 32-bit register ([15:0], [7:0] or [15:8]) and leaves its other bits,
\* and every other slot of the context, unchanged.
C8_SubRegisterStore ==
    (last.op = "store_register" /\ last.reg \notin FullSizeRegisters) =>
        /\ panic = "none"
        /\ ctx = [last.before EXCEPT ![0][GpNumber(AliasParent(last.reg))] =
                      AliasInsert(@, last.reg, last.arg.limbs)]

\* C9: load_register(r) returns a value of width r.size() whose bits are the
\* bits of the parent 32-bit register that r names, for each of the 24
\* registers.
C9_LoadRegisterAliasedBits ==
    last.op = "load_register" =>
        /\ panic = "none"
        /\ last.res = Val(Size(last.reg),
                          AliasBits(ctx[0][GpNumber(AliasParent(last.reg))], last.reg))

\* C10: mov eax,0x41424344; mov al,42 on a zero-initialized context leaves
\* EAX = 0x4142422A.
C10_MovAlDirty ==
    (/\ last.op = "mov"
     /\ last.dst = RegisterOperand("AL")
     /\ last.src = Immediate8(42)
     /\ last.before = MovLowering(ZeroContext, RegisterOperand("EAX"),
                                  Immediate32(<<17220, 16706>>)).ctx) =>
        /\ panic = "none"
        /\ ctx[0][GpNumber("EAX")] = <<16938, 16706>>

---------------------------------------------------------------------------
(* Flags and 1-bit values *)

\* the flags load_flag matches on, and the number `flag as u64` of each
Flags == {"Carry", "Parity", "AuxiliaryCarry", "Zero", "Sign", "Overflow"}

FlagNumber(flag) ==
    CASE flag = "Carry" -> 0 [] flag = "Parity" -> 1 [] flag = "AuxiliaryCarry" -> 2
      [] flag = "Zero" -> 3 [] flag = "Sign" -> 4 [] flag = "Overflow" -> 5

\* build_ctx_flag_gep: gep ctx_ptr, [0, 1, flag as u64]
BuildCtxFlagGep(flag) == [field |-> 1, index |-> FlagNumber(flag)]

\* make_true / make_false: types.i1.const_int(1 / 0, false)
MakeTrue == Val("I1", <<1>>)
MakeFalse == Val("I1", <<0>>)
Bools == {MakeTrue, MakeFalse}

\* zext(val, to): the bits of val, zeros above them
Zext(val, to) == Val(to, SubSeq(AsU64(val.limbs), 1, NLimbs(to)))

\* build_int_compare(IntPredicate::NE, lhs, rhs)
IcmpNE(lhs, rhs) == IF lhs.limbs # rhs.limbs THEN MakeTrue ELSE MakeFalse

\* load_flag(flag): the i1 read, or the panic of todo!() / unimplemented!()
LoadFlag(c, flag) ==
    IF flag \in {"Carry", "Overflow"} THEN [panic |-> "todo", val |-> NoVal]
    ELSE IF flag \in {"Parity", "AuxiliaryCarry"}
         THEN [panic |-> "unimplemented", val |-> NoVal]
    ELSE LET i8_val == BuildLoad(c, BuildCtxFlagGep(flag))
             zero == MakeU8(0)
         IN  [panic |-> "none", val |-> IcmpNE(i8_val, zero)]

\* store_flag(flag, value): the context after
StoreFlag(c, flag, value) ==
    BuildStore(c, BuildCtxFlagGep(flag), Zext(value, "I8"))

\* int_neg(val): build_int_neg, 0 - val modulo 2^width; on i1 that is val
IntNeg(val) ==
    IF val.ty = "I1" THEN Val("I1", <<(2 - val.limbs[1]) % 2>>)
    ELSE Val(val.ty, Wrap(val.ty, AsU64(
             AddLimbs([i \in 1..Len(val.limbs) |-> (Limb - 1) - val.limbs[i]],
                      [i \in 1..Len(val.limbs) |-> 0], 1, 1))))

\* bool_neg(val) = int_neg(val)
BoolNeg(val) == IntNeg(val)

\* The two layouts of the context: struct CpuContext on the host side and the
\* struct body Types::new gives the LLVM type; a field is an array of len
\* elements of elem bytes (repr(C), non-packed: no padding arises here).
HostCpuContext == <<[name |-> "gp_regs", elem |-> 4, len |-> 8]>>
LlvmContext == <<[name |-> "gp_regs", elem |-> 4, len |-> 8],
                 [name |-> "flags", elem |-> 1, len |-> 8]>>

RECURSIVE SizeOfFields(_, _)
SizeOfFields(layout, n) ==
    IF n = 0 THEN 0
    ELSE SizeOfFields(layout, n - 1) + layout[n].elem * layout[n].len

SizeOf(layout) == SizeOfFields(layout, Len(layout))

\* the bytes of the record a pointer built by a gep names
SlotBytes(ptr) ==
    LET f == LlvmContext[ptr.field + 1]
        at == SizeOfFields(LlvmContext, ptr.field) + ptr.index * f.elem
    IN  at .. (at + f.elem - 1)

FlagOp(op, flag, arg, res, before) ==
    [op |-> op, flag |-> flag, arg |-> arg, res |-> res, before |-> before,
     slot |-> BuildCtxFlagGep(flag)]

\* load_flag(f), and the emitted code run on the context
DoLoadFlag(f) ==
    /\ panic = "none"
    /\ LET res == LoadFlag(ctx, f)
       IN  /\ last' = FlagOp("load_flag", f, NoVal, res.val, ctx)
           /\ panic' = res.panic
    /\ UNCHANGED <<ctx, stores>>
    /\ UNCHANGED <<bvars, mem>>

\* store_flag(f, v), and the emitted store run on the context
DoStoreFlag(f, v) ==
    /\ panic = "none"
    /\ last' = FlagOp("store_flag", f, v, NoVal, ctx)
    /\ ctx' = StoreFlag(ctx, f, v)
    /\ UNCHANGED <<panic, stores>>
    /\ UNCHANGED <<bvars, mem>>

\* bool_neg(b) on a 1-bit value
DoBoolNeg(b) ==
    /\ panic = "none"
    /\ last' = [op |-> "bool_neg", arg |-> b, res |-> BoolNeg(b), before |-> ctx]
    /\ UNCHANGED <<ctx, panic, stores>>
    /\ UNCHANGED <<bvars, mem>>

NextFlags ==
    \/ \E f \in Flags : DoLoadFlag(f)
    \/ \E f \in Flags : \E v \in Bools : DoStoreFlag(f, v)
    \/ \E b \in Bools : DoBoolNeg(b)
    \/ \E r \in FullSizeRegisters : DoLoadRegister(r)

SpecFlags == InitEmpty /\ [][NextFlags]_vars

\* C11: the host CpuContext and the context record the backend addresses have
\* the same layout { u32 gp_regs[8]; u8 flags[8] }, and every slot that
\* load_register, store_register, load_flag or store_flag addresses lies
\* inside the host CpuContext record.
C11_ContextLayout ==
    /\ last.op \in {"load_flag", "store_flag"} =>
           /\ HostCpuContext = LlvmContext
           /\ SlotBytes(last.slot) \subseteq 0 .. (SizeOf(HostCpuContext) - 1)
    /\ (last.op \in {"load_register", "store_register"} /\ panic = "none") =>
           SlotBytes(BuildCtxGpGep(last.reg)) \subseteq 0 .. (SizeOf(HostCpuContext) - 1)

\* the ModR/M register-field encoding of the 32-bit registers
ModRM(reg) ==
    CASE reg = "EAX" -> 0 [] reg = "ECX" -> 1 [] reg = "EDX" -> 2 [] reg = "EBX" -> 3
      [] reg = "ESP" -> 4 [] reg = "EBP" -> 5 [] reg = "ESI" -> 6 [] reg = "EDI" -> 7

\* C12: the index into gp_regs that load_register and store_register use for
\* a full-size register equals the register's ModR/M encoding.
C12_GpNumberIsModRM ==
    (last.op \in {"load_register", "store_register"} /\ last.reg \in FullSizeRegisters) =>
        BuildCtxGpGep(last.reg).index = ModRM(last.reg)

\* C13: store_flag(f, v) writes v zero-extended to the byte of f and nothing
\* else; load_flag(f) returns true exactly when the byte of f is non-zero;
\* both for each of the six flags, so a load after a store returns v.
C13_FlagRoundTrip ==
    /\ last.op = "store_flag" =>
           /\ panic = "none"
           /\ ctx = [last.before EXCEPT ![1][FlagNumber(last.flag)] = last.arg.limbs]
           /\ LoadFlag(ctx, last.flag) = [panic |-> "none", val |-> last.arg]
    /\ last.op = "load_flag" =>
           /\ panic = "none"
           /\ last.res = (IF ctx[1][FlagNumber(last.flag)] # <<0>>
                          THEN MakeTrue ELSE MakeFalse)

\* C14: bool_neg(true) = false and bool_neg(false) = true, hence
\* bool_neg(bool_neg(b)) = b and bool_neg(b) # b.
C14_BoolNegIsNot ==
    last.op = "bool_neg" =>
        /\ last.res = (IF last.arg = MakeTrue THEN MakeFalse ELSE MakeTrue)
        /\ last.res # last.arg
        /\ BoolNeg(last.res) = last.arg

---------------------------------------------------------------------------
(* Guest memory (checked under SpecMemory) *)

\* get_host_pointer(target_ptr): gep i8, mem_ptr, zext(target_ptr, i64); the
\* pointer is named by its byte offset from mem_ptr, an i64
GetHostPointer_Sext(target_ptr) ==
    LET fill == IF target_ptr.limbs[2] >= 32768 THEN 65535 ELSE 0
    IN  Val("I64", target_ptr.limbs \o <<fill, fill>>)
GetHostPointer(target_ptr) == Zext(target_ptr, "I64")

\* byte k of a value, little-endian, and a value from its bytes
ByteOf(limbs, k) ==
    (limbs[(k \div 2) + 1] \div (IF k % 2 = 0 THEN 1 ELSE 256)) % 256

FromBytes(ty, bytes) ==
    IF ty = "I8" THEN Val(ty, <<bytes[1]>>)
    ELSE Val(ty, [i \in 1..NLimbs(ty) |-> bytes[2 * i - 1] + 256 * bytes[2 * i]])

\* hptr + k bytes
HostByte(hptr, k) == Add(hptr, Val("I64", <<k, 0, 0, 0>>)).limbs

ReadByte(m, o) == IF o \in DOMAIN m THEN m[o] ELSE 0

\* load_memory(size, address): a load of align 1 through the cast pointer
LoadMemory(m, size, address) ==
    LET hptr == GetHostPointer(address)
    IN  FromBytes(size, [k \in 1..(BitWidth(size) \div 8) |->
                            ReadByte(m, HostByte(hptr, k - 1))])

\* store_memory(address, value): a store of align 1 through the cast pointer
StoreMemory(m, address, value) ==
    LET hptr == GetHostPointer(address)
        n == BitWidth(value.ty) \div 8
        written == {HostByte(hptr, k) : k \in 0..(n - 1)}
    IN  [o \in DOMAIN m \cup written |->
            IF o \in written
            THEN ByteOf(value.limbs, CHOOSE k \in 0..(n - 1) : HostByte(hptr, k) = o)
            ELSE m[o]]

\* guest addresses 0x00001001, 0x00001003 (unaligned, overlapping for 32-bit
\* accesses) and 0xffffffff
GuestAddrs == {<<4097, 0>>, <<4099, 0>>, <<65535, 65535>>}

MemOp(op, addr, size, arg, res, before) ==
    [op |-> op, addr |-> addr, size |-> size, arg |-> arg, res |-> res,
     before |-> before]

\* load_memory(size, a), and the emitted load run on guest memory
DoLoadMemory(size, a) ==
    /\ panic = "none"
    /\ last' = MemOp("load_memory", a, size, NoVal,
                     LoadMemory(mem, size, MakeU32(a)), mem)
    /\ UNCHANGED <<ctx, panic, stores, mem>>
    /\ UNCHANGED bvars

\* store_memory(a, v), and the emitted store run on guest memory
DoStoreMemory(a, v) ==
    /\ panic = "none"
    /\ stores < MaxMemStores
    /\ last' = MemOp("store_memory", a, v.ty, v, NoVal, mem)
    /\ mem' = StoreMemory(mem, MakeU32(a), v)
    /\ stores' = stores + 1
    /\ UNCHANGED <<ctx, panic>>
    /\ UNCHANGED bvars

NextMemory ==
    \/ \E a \in GuestAddrs : \E ty \in {"I8", "I16", "I32"} : DoLoadMemory(ty, a)
    \/ \E a \in GuestAddrs : \E ty \in {"I8", "I16", "I32"} :
           \E v \in ValuesOf(ty) : DoStoreMemory(a, v)

SpecMemory == InitEmpty /\ [][NextMemory]_vars

\* the host offset of byte k of guest address a: a as an unsigned number, + k
UnsignedOffset(a, k) ==
    LET lo == a[1] + k
        hi == a[2] + (lo \div Limb)
    IN  <<lo % Limb, hi % Limb, hi \div Limb, 0>>

\* C15: for every guest address a, also a >= 2^31, store_memory(a, v) writes
\* the bytes of v at host offsets a, a+1, ... from the guest base, a taken as
\* an unsigned number, and no other byte; load_memory(ty, a) reads the bytes
\* at those offsets; so a load of v's width at a after the store returns v.
C15_GuestMemoryUnsignedOffset ==
    /\ last.op = "store_memory" =>
           LET n == BitWidth(last.size) \div 8
               at == {UnsignedOffset(last.addr, k) : k \in 0..(n - 1)}
           IN  /\ DOMAIN mem = DOMAIN last.before \cup at
               /\ \A k \in 0..(n - 1) :
                      mem[UnsignedOffset(last.addr, k)] = ByteOf(last.arg.limbs, k)
               /\ \A o \in DOMAIN last.before \ at : mem[o] = last.before[o]
               /\ LoadMemory(mem, last.size, MakeU32(last.addr)) = last.arg
    /\ last.op = "load_memory" =>
           last.res =
               FromBytes(last.size,
                         [k \in 1..(BitWidth(last.size) \div 8) |->
                             ReadByte(mem, UnsignedOffset(last.addr, k - 1))])

C15_Witness ==
    /\ last.op = "load_memory"
    /\ last.addr = <<65535, 65535>>
    /\ last.size = "I32"
    /\ last.res = Val("I32", <<17220, 16706>>)
    /\ <<2, 0, 1, 0>> \in DOMAIN mem
    /\ <<4099, 0, 0, 0>> \in DOMAIN mem

---------------------------------------------------------------------------
(* Calling conventions (checked under SpecModule) *)

\* LLVM's number for the C calling convention, which `extern "C"` names
C_CALLING_CONVENTION == 0

\* type BbFunc = unsafe extern "C" fn(*mut CpuContext, *mut u8) -> c_void:
\* the type through which the host calls a compiled block function
BbFunc == [cc |-> C_CALLING_CONVENTION, params |-> <<"CpuContext", "u8">>]

\* the call instructions built so far
CallInstrs ==
    UNION {{blocks[i].instrs[j] :
               j \in {k \in 1..Len(blocks[i].instrs) : blocks[i].instrs[k].op = "call"}} :
           i \in 1..Len(blocks)}

\* C16: every block function carries the fast calling convention, every call
\* between block functions carries it, and the function type through which
\* the host enters a block function uses the convention of the function.
C16_UniformCallingConvention ==
    /\ \A i \in 1..Len(functions) :
           /\ functions[i].cc = FASTCC_CALLING_CONVENTION
           /\ BbFunc.cc = functions[i].cc
    /\ \A c \in CallInstrs :
           /\ c.cc = FASTCC_CALLING_CONVENTION
           /\ c.cc = functions[c.callee].cc

---------------------------------------------------------------------------
(* Integer primitives of the builder used by the instruction recipes *)

RECURSIVE XorN(_, _, _)
XorN(x, y, n) ==
    IF n = 0 THEN 0 ELSE ((x + y) % 2) + 2 * XorN(x \div 2, y \div 2, n - 1)

RECURSIVE AndN(_, _, _)
AndN(x, y, n) ==
    IF n = 0 THEN 0 ELSE ((x % 2) * (y % 2)) + 2 * AndN(x \div 2, y \div 2, n - 1)

\* sub(lhs, rhs): build_int_sub, lhs - rhs modulo 2^width
Sub(lhs, rhs) == Add(lhs, IntNeg(rhs))

\* xor(lhs, rhs): build_xor
Xor(lhs, rhs) ==
    Val(lhs.ty, [i \in 1..Len(lhs.limbs) |-> XorN(lhs.limbs[i], rhs.limbs[i], 16)])

\* and(lhs, rhs): bitwise and (the spec's builder lists it; trait Builder
\* has no such method)
And(lhs, rhs) ==
    Val(lhs.ty, [i \in 1..Len(lhs.limbs) |-> AndN(lhs.limbs[i], rhs.limbs[i], 16)])

\* bit i of a value, bit 0 the lowest
BitAt(val, i) == (val.limbs[(i \div 16) + 1] \div (2 ^ (i % 16))) % 2

RECURSIVE SumBits(_, _, _)
SumBits(f, from, n) ==
    IF n = 0 THEN 0 ELSE f[from] + 2 * SumBits(f, from + 1, n - 1)

\* the value of type ty whose bit i is f[i]
FromBits(ty, f) ==
    Val(ty, [k \in 1..NLimbs(ty) |->
                SumBits(f, 16 * (k - 1),
                        IF BitWidth(ty) < 16 THEN BitWidth(ty) ELSE 16)])

\* the shift amount an operand encodes: its number if below the width of
\* the type, otherwise the width (the shift then yields poison)
ShiftAmount(rhs) ==
    IF \A i \in 2..Len(rhs.limbs) : rhs.limbs[i] = 0
    THEN (IF rhs.limbs[1] < BitWidth(rhs.ty) THEN rhs.limbs[1] ELSE BitWidth(rhs.ty))
    ELSE BitWidth(rhs.ty)

\* shl(lhs, rhs): build_left_shift; poison is the value the build happens to
\* produce when rhs is not below the width
Shl(lhs, rhs, poison) ==
    LET w == BitWidth(lhs.ty)
        c == ShiftAmount(rhs)
    IN  IF c >= w THEN poison
        ELSE FromBits(lhs.ty, [i \in 0..(w - 1) |->
                                  IF i >= c THEN BitAt(lhs, i - c) ELSE 0])

\* build_right_shift(lhs, rhs, sign_extend)
BuildRightShift(lhs, rhs, sign_extend, poison) ==
    LET w == BitWidth(lhs.ty)
        c == ShiftAmount(rhs)
        fill == IF sign_extend THEN BitAt(lhs, w - 1) ELSE 0
    IN  IF c >= w THEN poison
        ELSE FromBits(lhs.ty, [i \in 0..(w - 1) |->
                                  IF i + c < w THEN BitAt(lhs, i + c) ELSE fill])

\* lshr(lhs, rhs) and ashr(lhs, rhs)
Lshr(lhs, rhs, poison) == BuildRightShift(lhs, rhs, FALSE, poison)
Ashr(lhs, rhs, poison) == BuildRightShift(lhs, rhs, TRUE, poison)

\* unsigned and signed less-than on two values of one width
ULess(lhs, rhs) ==
    \E i \in 1..Len(lhs.limbs) :
        /\ lhs.limbs[i] < rhs.limbs[i]
        /\ \A j \in (i + 1)..Len(lhs.limbs) : lhs.limbs[j] = rhs.limbs[j]

SLess(lhs, rhs) ==
    LET w == BitWidth(lhs.ty)
    IN  IF BitAt(lhs, w - 1) # BitAt(rhs, w - 1) THEN BitAt(lhs, w - 1) = 1
        ELSE ULess(lhs, rhs)

\* icmp(cmp, lhs, rhs): build_int_compare with the predicate of cmp
Icmp(cmp, lhs, rhs) ==
    LET holds ==
            CASE cmp = "Equal" -> lhs.limbs = rhs.limbs
              [] cmp = "NotEqual" -> lhs.limbs # rhs.limbs
              [] cmp = "UnsignedGreater" -> ULess(rhs, lhs)
              [] cmp = "UnsignedGreaterOrEqual" -> ~ULess(lhs, rhs)
              [] cmp = "UnsignedLess" -> ULess(lhs, rhs)
              [] cmp = "UnsignedLessOrEqual" -> ~ULess(rhs, lhs)
              [] cmp = "SignedGreater" -> SLess(rhs, lhs)
              [] cmp = "SignedGreaterOrEqual" -> ~SLess(lhs, rhs)
              [] cmp = "SignedLess" -> SLess(lhs, rhs)
              [] cmp = "SignedLessOrEqual" -> ~SLess(rhs, lhs)
    IN  IF holds THEN MakeTrue ELSE MakeFalse

\* trunc(val, to): the low bits of val; the recipes also narrow to one bit
Trunc(val, to) ==
    IF to = "I1" THEN Val("I1", <<val.limbs[1] % 2>>)
    ELSE Val(to, Wrap(to, AsU64(val.limbs)))

---------------------------------------------------------------------------
(* Instruction lowering: the flag recipes and the lowering steps, expressed *)
(* through the builder's operations (checked under SpecInstr)               *)

Const(ty, n) == MakeIntValue(ty, AsU64(<<n>>))

\* (v >> (W-1)) & 1 as a 1-bit value
TopBit(v) == Trunc(Lshr(v, Const(v.ty, BitWidth(v.ty) - 1), v), "I1")

\* ~v
Not(v) == Xor(v, IntNeg(Const(v.ty, 1)))

\* store_flag for each <<flag, value>> of a list, in order
RECURSIVE StoreFlags(_, _)
StoreFlags(c, writes) ==
    IF writes = <<>> THEN c
    ELSE StoreFlags(StoreFlag(c, writes[1][1], writes[1][2]), Tail(writes))

\* SUB(a,b) -> r: CF = a <u b; OF = ((a ^ b) & (a ^ r)) >> (W-1);
\* ZF = r == 0; SF = (r >> (W-1)) & 1
SubFlags(a, b, r) ==
    << <<"Carry", Icmp("UnsignedLess", a, b)>>,
       <<"Overflow", TopBit(And(Xor(a, b), Xor(a, r)))>>,
       <<"Zero", Icmp("Equal", r, Const(r.ty, 0))>>,
       <<"Sign", TopBit(r)>> >>

\* ADD(a,b) -> r: CF = r <u a; OF = ((a ^ ~b) & (a ^ r)) >> (W-1)
AddFlags(a, b, r) ==
    << <<"Carry", Icmp("UnsignedLess", r, a)>>,
       <<"Overflow", TopBit(And(Xor(a, Not(b)), Xor(a, r)))>>,
       <<"Zero", Icmp("Equal", r, Const(r.ty, 0))>>,
       <<"Sign", TopBit(r)>> >>

\* SUB / CMP / INC / DEC dst[, src]: load the sources, compute, store the
\* result (not for CMP), update the affected flags (not CF for INC / DEC)
ArithLowering(c, mnemonic, dst, src) ==
    LET a == LoadOperand(c, dst)
        b == IF mnemonic \in {"inc", "dec"}
             THEN [panic |-> "none", val |-> Const(a.val.ty, 1)]
             ELSE LoadOperand(c, src)
    IN  IF a.panic # "none" THEN [panic |-> a.panic, ctx |-> c]
        ELSE IF b.panic # "none" THEN [panic |-> b.panic, ctx |-> c]
        ELSE LET minus == mnemonic \in {"sub", "cmp", "dec"}
                 r == IF minus THEN Sub(a.val, b.val) ELSE Add(a.val, b.val)
                 all == IF minus THEN SubFlags(a.val, b.val, r)
                        ELSE AddFlags(a.val, b.val, r)
                 flags == IF mnemonic \in {"inc", "dec"} THEN Tail(all) ELSE all
                 stored == IF mnemonic = "cmp" THEN [panic |-> "none", ctx |-> c]
                           ELSE StoreOperand(c, dst, r)
             IN  IF stored.panic # "none" THEN stored
                 ELSE [panic |-> "none", ctx |-> StoreFlags(stored.ctx, flags)]

\* SHL / SHR / SAR dst, count: the count is masked with 0x1F; a masked count
\* of 0 changes nothing; otherwise the result and CF, OF (count 1), ZF, SF
ShiftLowering(c, mnemonic, dst, count, poison) ==
    LET a == LoadOperand(c, dst)
        n == LoadOperand(c, count)
    IN  IF a.panic # "none" THEN [panic |-> a.panic, ctx |-> c]
        ELSE IF n.panic # "none" THEN [panic |-> n.panic, ctx |-> c]
        ELSE LET masked == And(n.val, MakeU8(31))
                 ty == a.val.ty
                 cnt == IF ty = "I8" THEN masked ELSE Zext(masked, ty)
                 r == CASE mnemonic = "shl" -> Shl(a.val, cnt, poison)
                        [] mnemonic = "shr" -> Lshr(a.val, cnt, poison)
                        [] mnemonic = "sar" -> Ashr(a.val, cnt, poison)
                 cf == IF mnemonic = "shl"
                       THEN Trunc(Lshr(a.val, Sub(Const(ty, BitWidth(ty)), cnt), poison), "I1")
                       ELSE Trunc(Lshr(a.val, Sub(cnt, Const(ty, 1)), poison), "I1")
                 of == CASE mnemonic = "shl" -> Xor(cf, TopBit(r))
                         [] mnemonic = "shr" -> TopBit(a.val)
                         [] mnemonic = "sar" -> MakeFalse
                 flags == << <<"Carry", cf>> >>
                          \o (IF masked = MakeU8(1) THEN << <<"Overflow", of>> >> ELSE <<>>)
                          \o << <<"Zero", Icmp("Equal", r, Const(ty, 0))>>,
                                <<"Sign", TopBit(r)>> >>
             IN  IF masked = MakeU8(0) THEN [panic |-> "none", ctx |-> c]
                 ELSE LET stored == StoreOperand(c, dst, r)
                      IN  IF stored.panic # "none" THEN stored
                          ELSE [panic |-> "none", ctx |-> StoreFlags(stored.ctx, flags)]

\* the operands of the instructions run: EAX, AX, AL; immediates
\* 1, 2, 0x7fffffff, 0x80000000, -228 and the 16- and 8-bit values; counts
InstrRegisters == {"EAX", "AX", "AL"}
InstrValues32 == {<<1, 0>>, <<2, 0>>, <<65535, 32767>>, <<0, 32768>>, <<65308, 65535>>}
InstrImmediates(ty) ==
    IF ty = "I32" THEN {Immediate32(v) : v \in InstrValues32} ELSE ImmediatesOf(ty)
ShiftCounts == {Immediate8(n) : n \in {0, 1, 2, 9, 17, 32, 33, 34}}
                   \cup {RegisterOperand("CL")}

\* the values a shift that yields poison may be seen to produce
PoisonValues(ty) == {Const(ty, 0), Const(ty, 42)}

InstrOp(op, dst, src, poison, before) ==
    [op |-> op, dst |-> dst, src |-> src, poison |-> poison, before |-> before]

\* sub / cmp / inc / dec is lowered and run on the context
DoArith(mnemonic, dst, src) ==
    /\ panic = "none"
    /\ stores < MaxStores
    /\ LET res == ArithLowering(ctx, mnemonic, dst, src)
       IN  /\ last' = InstrOp(mnemonic, dst, src, NoVal, ctx)
           /\ panic' = res.panic
           /\ ctx' = res.ctx
    /\ stores' = stores + 1
    /\ UNCHANGED <<bvars, mem>>

\* shl / shr / sar is lowered and run on the context
DoShift(mnemonic, dst, count, poison) ==
    /\ panic = "none"
    /\ stores < MaxStores
    /\ LET res == ShiftLowering(ctx, mnemonic, dst, count, poison)
       IN  /\ last' = InstrOp(mnemonic, dst, count, poison, ctx)
           /\ panic' = res.panic
           /\ ctx' = res.ctx
    /\ stores' = stores + 1
    /\ UNCHANGED <<bvars, mem>>

\* ashr(lhs, rhs) on two values of one width
DoAshr(lhs, rhs, poison) ==
    /\ panic = "none"
    /\ last' = [op |-> "ashr", lhs |-> lhs, rhs |-> rhs,
                res |-> Ashr(lhs, rhs, poison), before |-> ctx]
    /\ UNCHANGED <<ctx, panic, stores>>
    /\ UNCHANGED <<bvars, mem>>

NextInstr ==
    \/ \E r \in InstrRegisters : \E src \in InstrImmediates(Size(r)) :
           DoMov(RegisterOperand(r), src)
    \/ \E m \in {"sub", "cmp"} : \E r \in InstrRegisters :
           \E src \in InstrImmediates(Size(r)) : DoArith(m, RegisterOperand(r), src)
    \/ \E m \in {"inc", "dec"} : \E r \in InstrRegisters :
           DoArith(m, RegisterOperand(r), NoOperand)
    \/ \E m \in {"shl", "shr", "sar"} : \E r \in InstrRegisters :
           \E n \in ShiftCounts : \E p \in PoisonValues(Size(r)) :
               DoShift(m, RegisterOperand(r), n, p)
    \/ \E ty \in {"I8", "I16", "I32"} : \E v \in ValuesOf(ty) :
           \E n \in {1, 9, 17} : \E p \in PoisonValues(ty) :
               DoAshr(v, Const(ty, n), p)

SpecInstr == InitEmpty /\ [][NextInstr]_vars

---------------------------------------------------------------------------
(* Properties of the instruction lowering (checked under SpecInstr) *)

\* the value a register names in a context, by the alias table
RegisterValue(c, reg) ==
    Val(Size(reg), AliasBits(c[0][GpNumber(AliasParent(reg))], reg))

\* the registers of context c with reg replaced by value v
RegistersWith(c, reg, v) ==
    [c[0] EXCEPT ![GpNumber(AliasParent(reg))] = AliasInsert(@, reg, v.limbs)]

FlagByte(c, flag) == c[1][FlagNumber(flag)][1]

AsBit(b) == IF b THEN 1 ELSE 0

\* the signed number of a value of 8 or 16 bits; of a 32-bit value, the
\* signed number of its high half
SignedHigh(v) ==
    LET top == v.limbs[Len(v.limbs)]
        half == IF v.ty = "I8" THEN 128 ELSE 32768
    IN  IF top >= half THEN top - 2 * half ELSE top

\* the signed difference a - b fits in the width of a and b
SignedDiffFits(a, b) ==
    LET half == IF a.ty = "I8" THEN 128 ELSE 32768
        borrow == IF a.ty = "I32" /\ a.limbs[1] < b.limbs[1] THEN 1 ELSE 0
        d == SignedHigh(a) - SignedHigh(b) - borrow
    IN  -half <= d /\ d < half

\* the signed sum a + b fits in the width of a and b
SignedSumFits(a, b) ==
    LET half == IF a.ty = "I8" THEN 128 ELSE 32768
        carry == IF a.ty = "I32" /\ a.limbs[1] + b.limbs[1] >= Limb THEN 1 ELSE 0
        s == SignedHigh(a) + SignedHigh(b) + carry
    IN  -half <= s /\ s < half

\* C17: SUB at width 8, 16, 32 on a and b leaves r = (a - b) mod 2^W in the
\* destination, CF = (a <u b), OF = (the signed difference does not fit),
\* ZF = (r = 0), SF = top bit of r; CMP leaves the same flags and the
\* destination unchanged.
C17_SubCmpFlags ==
    last.op \in {"sub", "cmp"} =>
        LET reg == last.dst.reg
            a == RegisterValue(last.before, reg)
            b == Val(Size(reg), last.src.imm)
            r == IF last.op = "sub" THEN RegisterValue(ctx, reg) ELSE Sub(a, b)
        IN  /\ panic = "none"
            /\ Add(r, b) = a
            /\ ctx[0] = (IF last.op = "sub" THEN RegistersWith(last.before, reg, r)
                         ELSE last.before[0])
            /\ FlagByte(ctx, "Carry") = AsBit(ULess(a, b))
            /\ FlagByte(ctx, "Overflow") = AsBit(~SignedDiffFits(a, b))
            /\ FlagByte(ctx, "Zero") = AsBit(r = Const(r.ty, 0))
            /\ FlagByte(ctx, "Sign") = BitAt(r, BitWidth(r.ty) - 1)

\* C18: INC and DEC at width 8, 16, 32 leave a + 1 / a - 1 in the
\* destination, OF, SF, ZF as ADD / SUB with 1, and CF as it was before.
C18_IncDecKeepCarry ==
    last.op \in {"inc", "dec"} =>
        LET reg == last.dst.reg
            a == RegisterValue(last.before, reg)
            one == Const(Size(reg), 1)
            r == RegisterValue(ctx, reg)
        IN  /\ panic = "none"
            /\ IF last.op = "inc" THEN r = Add(a, one) ELSE Add(r, one) = a
            /\ ctx[0] = RegistersWith(last.before, reg, r)
            /\ FlagByte(ctx, "Overflow") =
                   AsBit(IF last.op = "inc" THEN ~SignedSumFits(a, one)
                         ELSE ~SignedDiffFits(a, one))
            /\ FlagByte(ctx, "Zero") = AsBit(r = Const(r.ty, 0))
            /\ FlagByte(ctx, "Sign") = BitAt(r, BitWidth(r.ty) - 1)
            /\ FlagByte(ctx, "Carry") = FlagByte(last.before, "Carry")

\* the count a shift instruction is given: an immediate, or the value of CL
GivenCount(c, count) ==
    IF count.kind = "Register" THEN RegisterValue(c, count.reg).limbs[1]
    ELSE count.imm[1]

\* C19: SHL / SHR / SAR at width 8, 16, 32 with count c: when c AND 0x1F is 0
\* the destination and all flags are unchanged, and the destination and the
\* flags are those the count c mod 32 gives.
C19_ShiftCountMasked ==
    last.op \in {"shl", "shr", "sar"} =>
        LET c == GivenCount(last.before, last.src)
        IN  /\ panic = "none"
            /\ (c % 32 = 0) => ctx = last.before
            /\ ctx = ShiftLowering(last.before, last.op, last.dst,
                                   Immediate8(c % 32), last.poison).ctx

\* C20: SAR at width W in {8, 16} with masked count c, W <= c <= 31, leaves
\* every bit of the destination equal to the sign bit of a and CF equal to
\* the sign bit of a (mov al,-0x08; sar al,0x09 gives AL = 0xFF, CF = 1);
\* the arithmetic shift right that computes it is defined for such counts.
C20_SarBeyondWidth ==
    /\ (/\ last.op = "sar"
        /\ last.dst.reg \in {"AX", "AL"}
        /\ last.src.kind = "Immediate8"
        /\ last.src.imm[1] % 32 >= BitWidth(Size(last.dst.reg))) =>
           LET reg == last.dst.reg
               a == RegisterValue(last.before, reg)
               sign == BitAt(a, BitWidth(a.ty) - 1)
           IN  /\ panic = "none"
               /\ RegisterValue(ctx, reg) =
                      (IF sign = 1 THEN IntNeg(Const(a.ty, 1)) ELSE Const(a.ty, 0))
               /\ FlagByte(ctx, "Carry") = sign
    /\ (/\ last.op = "ashr"
        /\ last.lhs.ty \in {"I8", "I16"}
        /\ last.rhs.limbs[1] >= BitWidth(last.lhs.ty)) =>
           last.res = (IF BitAt(last.lhs, BitWidth(last.lhs.ty) - 1) = 1
                       THEN IntNeg(Const(last.lhs.ty, 1)) ELSE Const(last.lhs.ty, 0))

---------------------------------------------------------------------------
(* Logic instructions: AND, OR, XOR, TEST, NOT (checked under SpecLogic) *)

RECURSIVE OrN(_, _, _)
OrN(x, y, n) ==
    IF n = 0 THEN 0
    ELSE (IF (x % 2) + (y % 2) > 0 THEN 1 ELSE 0) + 2 * OrN(x \div 2, y \div 2, n - 1)

\* or(lhs, rhs): build_or
Or(lhs, rhs) ==
    Val(lhs.ty, [i \in 1..Len(lhs.limbs) |-> OrN(lhs.limbs[i], rhs.limbs[i], 16)])

\* the recipe without its write of CF
LogicFlags_KeepCarry(r) ==
    << <<"Overflow", MakeFalse>>,
       <<"Zero", Icmp("Equal", r, Const(r.ty, 0))>>,
       <<"Sign", TopBit(r)>>,
       <<"AuxiliaryCarry", MakeFalse>> >>

\* AND / OR / XOR / TEST -> r: CF = 0; OF = 0; ZF, SF from r; AF set to 0
LogicFlags(r) ==
    << <<"Carry", MakeFalse>>,
       <<"Overflow", MakeFalse>>,
       <<"Zero", Icmp("Equal", r, Const(r.ty, 0))>>,
       <<"Sign", TopBit(r)>>,
       <<"AuxiliaryCarry", MakeFalse>> >>

\* AND / OR / XOR / TEST dst, src and NOT dst: load the sources, compute,
\* store the result (not for TEST), write the flags (not for NOT)
LogicLowering(c, mnemonic, dst, src) ==
    LET a == LoadOperand(c, dst)
        b == IF mnemonic = "not" THEN a ELSE LoadOperand(c, src)
    IN  IF a.panic # "none" THEN [panic |-> a.panic, ctx |-> c]
        ELSE IF b.panic # "none" THEN [panic |-> b.panic, ctx |-> c]
        ELSE LET r == CASE mnemonic \in {"and", "test"} -> And(a.val, b.val)
                        [] mnemonic = "or" -> Or(a.val, b.val)
                        [] mnemonic = "xor" -> Xor(a.val, b.val)
                        [] mnemonic = "not" -> Not(a.val)
                 stored == IF mnemonic = "test" THEN [panic |-> "none", ctx |-> c]
                           ELSE StoreOperand(c, dst, r)
             IN  IF stored.panic # "none" THEN stored
                 ELSE IF mnemonic = "not" THEN stored
                 ELSE [panic |-> "none", ctx |-> StoreFlags(stored.ctx, LogicFlags(r))]

\* the operands of the logic tests: 228, 0x79d1e0e9, -0x16d29593
LogicValues32 == {<<228, 0>>, <<57577, 31185>>, <<27245, 59693>>}
LogicSources ==
    {RegisterOperand("EAX"), RegisterOperand("EBX")}
        \cup {Immediate32(v) : v \in LogicValues32}

\* and / or / xor / test / not is lowered and run on the context
DoLogic(mnemonic, dst, src) ==
    /\ panic = "none"
    /\ stores < MaxStores
    /\ LET res == LogicLowering(ctx, mnemonic, dst, src)
       IN  /\ last' = InstrOp(mnemonic, dst, src, NoVal, ctx)
           /\ panic' = res.panic
           /\ ctx' = res.ctx
    /\ stores' = stores + 1
    /\ UNCHANGED <<bvars, mem>>

NextLogic ==
    \/ \E r \in {"EAX", "EBX"} : \E v \in LogicValues32 :
           DoMov(RegisterOperand(r), Immediate32(v))
    \/ \E f \in {"Carry", "Overflow", "AuxiliaryCarry", "Sign"} : DoStoreFlag(f, MakeTrue)
    \/ \E m \in {"and", "or", "xor", "test"} : \E src \in LogicSources :
           DoLogic(m, RegisterOperand("EAX"), src)
    \/ \E r \in InstrRegisters : DoLogic("not", RegisterOperand(r), NoOperand)

SpecLogic == InitEmpty /\ [][NextLogic]_vars

\* the second operand of the last instruction, as a value
SourceValue(c, src) ==
    IF src.kind = "Register" THEN RegisterValue(c, src.reg) ELSE Val("I32", src.imm)

---------------------------------------------------------------------------
(* CMOVcc: ifelse(cc, store dst <- src, no-op) (checked under SpecCmov) *)

\* the condition codes run: Z, NZ, S, NS, B, L
ConditionCodes == {"z", "nz", "s", "ns", "b", "l"}

\* the 1-bit value of a condition code, built from load_flag, bool_neg and
\* icmp: Z = ZF, NZ = !ZF, S = SF, NS = !SF, B = CF, L = (SF != OF)
Condition(c, cc) ==
    LET flag == CASE cc \in {"z", "nz"} -> "Zero"
                  [] cc \in {"s", "ns", "l"} -> "Sign"
                  [] cc = "b" -> "Carry"
        f == LoadFlag(c, flag)
        o == IF cc = "l" THEN LoadFlag(c, "Overflow") ELSE f
    IN  IF f.panic # "none" THEN [panic |-> f.panic, val |-> MakeFalse]
        ELSE IF o.panic # "none" THEN [panic |-> o.panic, val |-> MakeFalse]
        ELSE [panic |-> "none",
              val |-> CASE cc \in {"z", "s", "b"} -> f.val
                        [] cc \in {"nz", "ns"} -> BoolNeg(f.val)
                        [] cc = "l" -> IcmpNE(f.val, o.val)]

RECURSIVE EmitAll(_, _, _)
EmitAll(blks, bb, instrs) ==
    IF instrs = <<>> THEN blks
    ELSE EmitAll(Emit(blks, bb, instrs[1]), bb, Tail(instrs))

\* ifelse(cond, iftrue, iffalse) as one call, for arms that build the given
\* instructions and hand back the given flows
IfElse(funs, blks, b, cond, thenInstrs, thenFlow, elseInstrs, elseFlow) ==
    LET true_bb == Len(blks) + 1
        false_bb == Len(blks) + 2
        cont_bb == Len(blks) + 3
        blks3 == AppendBasicBlock(
                     AppendBasicBlock(
                         AppendBasicBlock(blks, b.function, ""),
                         b.function, ""),
                     b.function, "")
        branched == Emit(blks3, b.pos, CondBr(cond, true_bb, false_bb))
        bt == PositionAtEnd(b, true_bb)
        left == HandleFlow(funs, EmitAll(branched, bt.pos, thenInstrs), bt,
                           cont_bb, <<>>, thenFlow)
        be == PositionAtEnd(b, false_bb)
        right == HandleFlow(left.funs, EmitAll(left.blks, be.pos, elseInstrs), be,
                            cont_bb, left.res, elseFlow)
    IN  [ok |-> left.ok /\ right.ok, funs |-> right.funs, blks |-> right.blks,
         builder |-> PositionAtEnd(b, cont_bb), result |-> Conditional(right.res)]

\* the block the emitted code goes to from block bb, 0 if bb has no branch
Successor(blks, bb, taken) ==
    LET ins == blks[bb].instrs
        term == ins[Len(ins)]
    IN  IF ins = <<>> THEN 0
        ELSE CASE term.op = "br" -> term.t1
               [] term.op = "condbr" -> (IF taken THEN term.t1 ELSE term.t2)
               [] OTHER -> 0

\* whether block bb holds a store
HasStore(blks, bb) ==
    \E k \in 1..Len(blks[bb].instrs) : blks[bb].instrs[k].op = "store"

\* the instructions load_operand / store_operand build for registers
MoveInstrs == <<Instr("load", 0, 0, 0, FALSE, 0, <<>>), Instr("store", 0, 0, 0, FALSE, 0, <<>>)>>

CmovOp(cc, dst, src, cond, arm, reached, result, before) ==
    [op |-> "cmov", cc |-> cc, dst |-> dst, src |-> src, cond |-> cond, arm |-> arm,
     reached |-> reached, result |-> result, before |-> before]

\* cmovcc dst, src is lowered on the live builder, and the emitted code is
\* run on the context from the block the builder stood at
DoCmov(cc, dst, src) ==
    /\ Running
    /\ panic = "none"
    /\ builder.function # 0
    /\ stack = <<>>
    /\ Len(blocks) + 3 <= MaxBlocks
    /\ stores < MaxStores
    /\ \E cond \in {Condition(ctx, cc)} : \E moved \in {MovLowering(ctx, dst, src)} :
       \E e \in {IfElse(functions, blocks, builder, "cc", MoveInstrs, NextInstruction,
                        <<>>, NextInstruction)} :
       \E arm \in {Successor(e.blks, builder.pos, cond.val = MakeTrue)} :
           IF cond.panic # "none" \/ moved.panic # "none"
           THEN /\ panic' = (IF cond.panic # "none" THEN cond.panic ELSE moved.panic)
                /\ last' = CmovOp(cc, dst, src, cond.val, 0, 0, NoFlow, ctx)
                /\ UNCHANGED <<ctx, functions, blocks, builder>>
           ELSE /\ functions' = e.funs
                /\ blocks' = e.blks
                /\ builder' = e.builder
                /\ ctx' = (IF HasStore(e.blks, arm) THEN moved.ctx ELSE ctx)
                /\ last' = CmovOp(cc, dst, src, cond.val, arm,
                                  Successor(e.blks, arm, cond.val = MakeTrue),
                                  e.result, ctx)
                /\ UNCHANGED panic
    /\ stores' = stores + 1
    /\ UNCHANGED <<stack, lastIfElse, lastReq, firstHandle, aborted, calls, emits, mem>>

NextCmov ==
    \/ \E v \in {<<2, 0>>} : DoMov(RegisterOperand("ECX"), Immediate32(v))
    \/ \E f \in {"Zero", "Sign", "Carry", "Overflow"} : DoStoreFlag(f, MakeTrue)
    \/ \E cc \in ConditionCodes : DoCmov(cc, RegisterOperand("EBX"), RegisterOperand("ECX"))

SpecCmov == Init /\ [][NextCmov]_vars

\* whether condition code cc holds on the flags of context c
CcHolds(c, cc) ==
    CASE cc = "z" -> FlagByte(c, "Zero") = 1
      [] cc = "nz" -> FlagByte(c, "Zero") = 0
      [] cc = "s" -> FlagByte(c, "Sign") = 1
      [] cc = "ns" -> FlagByte(c, "Sign") = 0
      [] cc = "b" -> FlagByte(c, "Carry") = 1
      [] cc = "l" -> FlagByte(c, "Sign") # FlagByte(c, "Overflow")

\* C22: CMOVcc writes src to dst when the condition holds and leaves the
\* registers and flags unchanged when it does not; both arms end in
\* NextInstruction and the emitted code goes on at the merge block, where
\* the builder stands.
C22_CmovConditionalStore ==
    last.op = "cmov" =>
        /\ panic = "none"
        /\ CcHolds(last.before, last.cc) =>
               /\ ctx[0] = RegistersWith(last.before, last.dst.reg,
                                         RegisterValue(last.before, last.src.reg))
               /\ ctx[1] = last.before[1]
        /\ ~CcHolds(last.before, last.cc) => ctx = last.before
        /\ last.result = Conditional(<<NextInstruction, NextInstruction>>)
        /\ last.reached = builder.pos
        /\ IncomingEdges(blocks, builder.pos) = 2

---------------------------------------------------------------------------
(* REPE SCAS: the counted loop of a prefixed string instruction (checked  *)
(* under SpecRep).  Lowering the instruction is one step; each pass of the *)
(* emitted loop header over the context is one step.                       *)

\* the accumulator SCAS compares at each element size
Accumulator(size) ==
    CASE size = "I8" -> "AL" [] size = "I16" -> "AX" [] size = "I32" -> "EAX"

\* the data of the scasd tests: four dwords at RepAddr, EAX, ECX
RepAddr == <<4096, 0>>
RepData == {<<17, 17, 18, 17>>, <<17, 17, 17, 17>>, <<18, 17, 17, 17>>}
RepAccumulators == {<<17, 0>>, <<18, 0>>}
MaxCount == 4

RECURSIVE WriteDwords(_, _, _)
WriteDwords(m, data, i) ==
    IF i = 0 THEN m
    ELSE StoreMemory(WriteDwords(m, data, i - 1),
                     MakeU32(<<RepAddr[1] + 4 * (i - 1), 0>>),
                     MakeU32(<<data[i], 0>>))

\* SCAS once: the accumulator is compared with [EDI] as SUB does, the flags
\* are written, EDI steps by the element size
ScasLowering(c, m, size) ==
    LET acc == LoadRegister(c, Accumulator(size))
        edi == LoadRegister(c, "EDI")
    IN  IF acc.panic # "none" THEN [panic |-> acc.panic, ctx |-> c]
        ELSE LET v == LoadMemory(m, size, edi.val)
                 flagged == StoreFlags(c, SubFlags(acc.val, v, Sub(acc.val, v)))
             IN  StoreRegister(flagged, "EDI",
                               Add(edi.val, Const("I32", BitWidth(size) \div 8)))

\* one pass of the loop header: ECX is decremented, the primitive runs
\* once, and the loop goes on while ECX != 0 and ZF
RepeHeader(c, m, size) ==
    LET ecx == LoadRegister(c, "ECX")
        counted == StoreRegister(c, "ECX", Sub(ecx.val, Const("I32", 1)))
        scanned == ScasLowering(counted.ctx, m, size)
        zf == LoadFlag(scanned.ctx, "Zero")
        left == LoadRegister(scanned.ctx, "ECX")
    IN  [panic |-> scanned.panic, ctx |-> scanned.ctx,
         again |-> /\ Icmp("NotEqual", left.val, Const("I32", 0)) = MakeTrue
                   /\ zf.val = MakeTrue]

RepOp(size, phase, execs, n, start, before) ==
    [op |-> "repe_scas", size |-> size, phase |-> phase, execs |-> execs, n |-> n,
     start |-> start, before |-> before]

\* the prologue of a test: the four dwords, mov edi, mov eax, mov ecx
DoRepSetup(data, x, n) ==
    /\ panic = "none"
    /\ last.op = "none"
    /\ mem' = WriteDwords(mem, data, 4)
    /\ \E c1 \in {MovLowering(ctx, RegisterOperand("EDI"), Immediate32(RepAddr))} :
       \E c2 \in {MovLowering(c1.ctx, RegisterOperand("EAX"), Immediate32(x))} :
           ctx' = MovLowering(c2.ctx, RegisterOperand("ECX"), Immediate32(<<n, 0>>)).ctx
    /\ last' = [op |-> "setup", before |-> ctx]
    /\ UNCHANGED <<panic, stores>>
    /\ UNCHANGED bvars

\* repe scas at an element size is lowered (which loads the accumulator),
\* and the emitted code is entered: ECX is read, and if zero the loop is
\* skipped
DoRepeScas(size) ==
    /\ panic = "none"
    /\ last.op \in {"none", "setup"}
    /\ \E lowered \in {ScasLowering(ctx, mem, size)} :
       \E ecx \in {LoadRegister(ctx, "ECX").val} :
           /\ panic' = lowered.panic
           /\ last' = RepOp(size,
                            IF lowered.panic = "none" /\ ecx # Const("I32", 0)
                            THEN "header" ELSE "done",
                            0, ecx.limbs[1], LoadRegister(ctx, "EDI").val, ctx)
    /\ UNCHANGED <<ctx, stores, mem>>
    /\ UNCHANGED bvars

\* the emitted loop header runs once
DoRepeHeader ==
    /\ panic = "none"
    /\ last.op = "repe_scas"
    /\ last.phase = "header"
    /\ \E h \in {RepeHeader(ctx, mem, last.size)} :
           /\ ctx' = h.ctx
           /\ last' = [last EXCEPT !.execs = @ + 1,
                                   !.phase = IF h.again THEN "header" ELSE "done"]
    /\ UNCHANGED <<panic, stores, mem>>
    /\ UNCHANGED bvars

NextRep ==
    \/ \E data \in RepData : \E x \in RepAccumulators : \E n \in 0..MaxCount :
           DoRepSetup(data, x, n)
    \/ \E size \in {"I8", "I16", "I32"} : DoRepeScas(size)
    \/ DoRepeHeader

SpecRep == InitEmpty /\ [][NextRep]_vars

\* element i (1-based) of the string at address start
ElementAt(m, size, start, i) ==
    LoadMemory(m, size, Add(start, Const("I32", (i - 1) * (BitWidth(size) \div 8))))

\* min(n, k), k the position of the first of the n elements that differs
\* from the accumulator
ScanLength(m, size, start, acc, n) ==
    LET differs == {i \in 1..n : ElementAt(m, size, start, i) # acc}
    IN  IF differs = {} THEN n ELSE CHOOSE i \in differs : \A j \in differs : i <= j

\* C23: a REPE SCAS loop started with ECX = n runs the string primitive at
\* most n times and stops after min(n, k) runs, k the position of the first
\* element that differs from the accumulator; each run takes one from ECX
\* and steps EDI by the element size; with n = 0 nothing changes.
C23_RepeScasTerminates ==
    last.op = "repe_scas" =>
        LET size == last.size
            acc == RegisterValue(last.before, Accumulator(size))
            len == ScanLength(mem, size, last.start, acc, last.n)
        IN  /\ panic = "none"
            /\ last.execs <= len
            /\ (last.phase = "done") <=> (last.execs = len)
            /\ RegisterValue(ctx, "ECX") = Const("I32", last.n - last.execs)
            /\ RegisterValue(ctx, "EDI") =
                   Add(last.start, Const("I32", last.execs * (BitWidth(size) \div 8)))
            /\ last.n = 0 => ctx = last.before

---------------------------------------------------------------------------
(* load_operand / store_operand on memory operands (checked under         *)
(* SpecOperand)                                                            *)

\* store_operand without its assert_eq
StoreOperandMemory_NoCheck(c, m, op, value) ==
    LET addr == ComputeMemoryOperandAddress(c, op)
    IN  IF addr.panic # "none" THEN [panic |-> addr.panic, mem |-> m, emitted |-> <<>>]
        ELSE IF op.size = "None" THEN [panic |-> "unwrap", mem |-> m, emitted |-> <<>>]
        ELSE [panic |-> "none", mem |-> StoreMemory(m, addr.val, value),
              emitted |-> <<[addr |-> addr.val, ty |-> value.ty]>>]

\* store_operand(Operand::Memory(op), value): the panic if any, guest
\* memory after the emitted code ran, and the store_memory calls made
StoreOperandMemory(c, m, op, value) ==
    LET addr == ComputeMemoryOperandAddress(c, op)
    IN  IF addr.panic # "none" THEN [panic |-> addr.panic, mem |-> m, emitted |-> <<>>]
        ELSE IF op.size = "None" THEN [panic |-> "unwrap", mem |-> m, emitted |-> <<>>]
        ELSE IF op.size # value.ty
        THEN [panic |-> "assert_eq size", mem |-> m, emitted |-> <<>>]
        ELSE [panic |-> "none", mem |-> StoreMemory(m, addr.val, value),
              emitted |-> <<[addr |-> addr.val, ty |-> value.ty]>>]

\* load_operand(Operand::Memory(op)): the panic if any and the value loaded
LoadOperandMemory(c, m, op) ==
    LET addr == ComputeMemoryOperandAddress(c, op)
    IN  IF addr.panic # "none" THEN [panic |-> addr.panic, val |-> NoVal]
        ELSE IF op.size = "None" THEN [panic |-> "unwrap", val |-> NoVal]
        ELSE [panic |-> "none", val |-> LoadMemory(m, op.size, addr.val)]

\* memory operands [base + index + disp] with displacements 7 and -1, with
\* and without a size and a segment; the values stored: 42 and 0x41424344
SizedMemoryOperands ==
    {MemoryOperand(b, d, 1, i, sz, sg) :
        b \in {"None", "EAX"},
        d \in {Disp(0, <<7, 0>>), Disp(-1, <<65535, 65535>>)},
        i \in {"None", "EBX"}, sz \in {"None", "I8", "I32"},
        sg \in {"None", "DS", "FS"}}

StoredValues == {MakeU8(42), MakeU32(<<17220, 16706>>)}

OperandOp(op, mop, arg, res, emitted, before, memBefore) ==
    [op |-> op, mop |-> mop, arg |-> arg, res |-> res, emitted |-> emitted,
     before |-> before, memBefore |-> memBefore]

\* store_operand(Memory(op), v), and the emitted code run on guest memory
DoStoreOperandMemory(op, v) ==
    /\ panic = "none"
    /\ stores < MaxStores
    /\ \E r \in {StoreOperandMemory(ctx, mem, op, v)} :
           /\ last' = OperandOp("store_operand", op, v, NoVal, r.emitted, ctx, mem)
           /\ panic' = r.panic
           /\ mem' = r.mem
    /\ stores' = stores + 1
    /\ UNCHANGED ctx
    /\ UNCHANGED bvars

\* load_operand(Memory(op)), and the emitted code run on guest memory
DoLoadOperandMemory(op) ==
    /\ panic = "none"
    /\ \E r \in {LoadOperandMemory(ctx, mem, op)} :
           /\ last' = OperandOp("load_operand", op, NoVal, r.val, <<>>, ctx, mem)
           /\ panic' = r.panic
    /\ UNCHANGED <<ctx, stores, mem>>
    /\ UNCHANGED bvars

\* compute_memory_operand_address(op) on a sized operand
DoComputeOperandAddress(op) ==
    /\ panic = "none"
    /\ \E r \in {ComputeMemoryOperandAddress(ctx, op)} :
           /\ last' = OperandOp("compute_memory_operand_address", op, NoVal, r.val,
                                <<>>, ctx, mem)
           /\ panic' = r.panic
    /\ UNCHANGED <<ctx, stores, mem>>
    /\ UNCHANGED bvars

NextOperand ==
    \/ \E v \in Values32 : DoStoreRegister("EAX", Val("I32", v))
    \/ \E op \in SizedMemoryOperands : \E v \in StoredValues :
           DoStoreOperandMemory(op, v)
    \/ \E op \in SizedMemoryOperands : DoLoadOperandMemory(op)
    \/ \E op \in SizedMemoryOperands : DoComputeOperandAddress(op)

SpecOperand == InitEmpty /\ [][NextOperand]_vars

\* a memory operand compute_memory_operand_address takes: no index, no
\* segment, a displacement that is an i32
Addressable(op) ==
    op.index = "None" /\ op.segment = "None" /\ FitsI32(op.displacement)

\* C24: store_operand to a memory operand aborts and emits no store_memory
\* when the width of the value is not the operand's size; when the widths
\* are equal (and the operand has an address) it emits exactly one
\* store_memory of that width at base + displacement.
C24_StoreOperandSizeCheck ==
    last.op = "store_operand" =>
        /\ last.mop.size # last.arg.ty =>
               /\ panic # "none"
               /\ last.emitted = <<>>
               /\ mem = last.memBefore
        /\ (last.mop.size = last.arg.ty /\ Addressable(last.mop)) =>
               LET ea == Add(RegisterOrZero(last.before, last.mop.base),
                             Val("I32", last.mop.displacement.lo))
               IN  /\ panic = "none"
                   /\ last.emitted = <<[addr |-> ea, ty |-> last.arg.ty]>>
                   /\ mem = StoreMemory(last.memBefore, ea, last.arg)

\* C24 witness: after an 8-bit store to [-1] was made (one store_memory, at
\* 0xffffffff), a store of a 32-bit value to an 8-bit operand was refused
C24_Witness ==
    /\ last.op = "store_operand"
    /\ last.mop.size = "I8"
    /\ last.arg.ty = "I32"
    /\ Addressable(last.mop)
    /\ panic = "assert_eq size"
    /\ DOMAIN mem = {<<65535, 65535, 0, 0>>}
    /\ mem = last.memBefore

\* the segment an operand addresses by default
DefaultSegment(op) == IF op.base \in {"EBP", "ESP"} THEN "SS" ELSE "DS"

\* C25: compute_memory_operand_address, load_operand and store_operand
\* abort on a memory operand whose segment is an override other than the
\* default, emitting nothing, and take an operand whose segment is the
\* default or absent.
C25_SegmentOverrideRejected ==
    last.op \in {"compute_memory_operand_address", "load_operand", "store_operand"} =>
        /\ last.mop.segment \notin {"None", DefaultSegment(last.mop)} =>
               /\ panic # "none"
               /\ last.emitted = <<>>
               /\ mem = last.memBefore
        /\ (/\ last.mop.segment \in {"None", DefaultSegment(last.mop)}
            /\ last.mop.index = "None"
            /\ FitsI32(last.mop.displacement)
            /\ last.op = "compute_memory_operand_address") => panic = "none"

---------------------------------------------------------------------------
(* The binary integer operations on operands of any two widths (checked   *)
(* under SpecBinary)                                                       *)

\* mul(lhs, rhs): build_int_mul, lhs * rhs modulo 2^width, byte by byte:
\* byte k of the product is the sum of the products of bytes i and k - i,
\* plus the carry of byte k - 1
RECURSIVE ByteProducts(_, _, _, _)
ByteProducts(a, b, k, i) ==
    IF i > k THEN 0
    ELSE ByteOf(a, i) * ByteOf(b, k - i) + ByteProducts(a, b, k, i + 1)

RECURSIVE MulBytes(_, _, _, _, _)
MulBytes(a, b, k, n, carry) ==
    IF k = n THEN <<>>
    ELSE LET sum == ByteProducts(a, b, k, 0) + carry
         IN  <<sum % 256>> \o MulBytes(a, b, k + 1, n, sum \div 256)

Mul(lhs, rhs) ==
    FromBytes(lhs.ty, MulBytes(lhs.limbs, rhs.limbs, 0, BitWidth(lhs.ty) \div 8, 0))

\* udiv(lhs, rhs): build_int_unsigned_div, the quotient for rhs # 0, by
\* long division from bit i down: qr[1] the quotient so far, qr[2] the
\* remainder
RECURSIVE UDivFrom(_, _, _, _)
UDivFrom(lhs, rhs, i, qr) ==
    IF i < 0 THEN qr[1]
    ELSE LET one == Const(lhs.ty, 1)
             over == BitAt(qr[2], BitWidth(lhs.ty) - 1) = 1
             shifted == Add(Add(qr[2], qr[2]), Const(lhs.ty, BitAt(lhs, i)))
         IN  IF over \/ ~ULess(shifted, rhs)
             THEN UDivFrom(lhs, rhs, i - 1,
                           <<Add(qr[1], Shl(one, Const(lhs.ty, i), one)),
                             Sub(shifted, rhs)>>)
             ELSE UDivFrom(lhs, rhs, i - 1, <<qr[1], shifted>>)

UDiv(lhs, rhs, poison) ==
    IF rhs = Const(rhs.ty, 0) THEN poison
    ELSE UDivFrom(lhs, rhs, BitWidth(lhs.ty) - 1,
                  <<Const(lhs.ty, 0), Const(lhs.ty, 0)>>)

BinaryOps == {"add", "sub", "mul", "xor", "or", "shl", "lshr", "ashr", "udiv"}

\* how the LLVM library the program is linked with was built: with its
\* assertions compiled in, or without
LlvmBuilds == {"assertions", "release"}

\* a binary operation of the builder: the build_* call is made on the two
\* operands as they are.  On operands of two widths LLVM's own assertion
\* aborts if it is compiled in; otherwise an ill-typed instruction of the
\* type of lhs is built, whose value is any (ill).
BinaryOp(op, lhs, rhs, build, ill) ==
    IF lhs.ty # rhs.ty
    THEN IF build = "assertions" THEN [panic |-> "llvm assertion", val |-> NoVal]
         ELSE [panic |-> "none", val |-> ill]
    ELSE [panic |-> "none",
          val |-> CASE op = "add" -> Add(lhs, rhs)
                    [] op = "sub" -> Sub(lhs, rhs)
                    [] op = "mul" -> Mul(lhs, rhs)
                    [] op = "xor" -> Xor(lhs, rhs)
                    [] op = "or" -> Or(lhs, rhs)
                    [] op = "shl" -> Shl(lhs, rhs, ill)
                    [] op = "lshr" -> Lshr(lhs, rhs, ill)
                    [] op = "ashr" -> Ashr(lhs, rhs, ill)
                    [] op = "udiv" -> UDiv(lhs, rhs, ill)]

\* the operands: 42, 248 / 42, 0xffff / 0x41424344, 0xffffffff, and 3
BinaryOperands ==
    UNION {ValuesOf(ty) \cup {Const(ty, 3)} : ty \in {"I8", "I16", "I32"}}

\* a binary operation is built on two values
DoBinaryOp(op, lhs, rhs, build, ill) ==
    /\ panic = "none"
    /\ stores < MaxBinaryOps
    /\ \E r \in {BinaryOp(op, lhs, rhs, build, ill)} :
           /\ last' = [op |-> "binary", name |-> op, lhs |-> lhs, rhs |-> rhs,
                       res |-> r.val, before |-> ctx]
           /\ panic' = r.panic
    /\ stores' = stores + 1
    /\ UNCHANGED <<ctx, mem>>
    /\ UNCHANGED bvars

NextBinary ==
    \E op \in BinaryOps : \E lhs \in BinaryOperands : \E rhs \in BinaryOperands :
        \E build \in LlvmBuilds : \E ill \in PoisonValues(lhs.ty) :
            DoBinaryOp(op, lhs, rhs, build, ill)

SpecBinary == InitEmpty /\ [][NextBinary]_vars

\* C26: add, sub, mul, xor, or, shl, lshr, ashr and udiv abort emission on
\* operands of two widths, and on operands of one width W return a value
\* of width W.
C26_BinaryOpWidths ==
    last.op = "binary" =>
        IF last.lhs.ty # last.rhs.ty THEN panic # "none"
        ELSE panic = "none" /\ last.res.ty = last.lhs.ty

---------------------------------------------------------------------------
(* Bodies of block functions (checked under SpecModule) *)

\* the blocks of function f that LlvmBuilder::new appended as its entry
EntryBlocks(f) ==
    {b \in 1..Len(blocks) : blocks[b].fn = f /\ blocks[b].name = "entry"}

\* C27: after any sequence of LlvmBuilder::new and call_basic_block
\* requests every block function has at most one block appended as
\* "entry": a second builder for an address gives its function no second
\* body.
C27_SingleEntryBlock ==
    \A f \in 1..Len(functions) : Cardinality(EntryBlocks(f)) <= 1

---------------------------------------------------------------------------
(* What a store to the context leaves alone *)

\* What lies behind the CpuContext record the host passes: the record is
\* gp_regs alone, so a flag slot is a byte past its end, in whatever the host
\* keeps there: bytes nothing else uses, or the start of the guest-memory
\* buffer (mem_ptr = ctx_ptr + size_of::<CpuContext>()).
HostNeighbours == {"unused", "guest memory"}

\* the guest address of the byte a flag's slot is, when guest memory follows
\* the record
BehindRecord(flag) ==
    LET at == CHOOSE b \in SlotBytes(BuildCtxFlagGep(flag)) : TRUE
    IN  <<at - SizeOf(HostCpuContext), 0>>

\* store_flag(f, v), and the emitted store run on a context the host passed
\* as a CpuContext with `behind` after it
DoStoreFlagInHost(f, v, behind) ==
    /\ panic = "none"
    /\ stores < MaxStores
    /\ last' = FlagOp("store_flag", f, v, NoVal, ctx)
    /\ ctx' = StoreFlag(ctx, f, v)
    /\ mem' = IF behind = "guest memory"
              THEN StoreMemory(mem, MakeU32(BehindRecord(f)), Zext(v, "I8"))
              ELSE mem
    /\ stores' = stores + 1
    /\ UNCHANGED panic
    /\ UNCHANGED bvars

NextFrame ==
    \/ \E r \in FullSizeRegisters : \E v \in Values32 :
           DoStoreRegister(r, Val("I32", v))
    \/ \E f \in Flags : \E v \in Bools : \E behind \in HostNeighbours :
           DoStoreFlagInHost(f, v, behind)
    \/ \E a \in GuestAddrs : \E v \in ValuesOf("I8") : DoStoreMemory(a, v)

SpecFrame == InitEmpty /\ [][NextFrame]_vars

\* the slots of the context record
Slots == {[field |-> fd, index |-> i] : fd \in 0..1, i \in 0..7}

\* a step that changes at most the slot ptr of the context, and no byte of
\* guest memory
WritesOnly(ptr) ==
    /\ \A p \in Slots : p # ptr => ctx'[p.field][p.index] = ctx[p.field][p.index]
    /\ \A o \in DOMAIN mem \cup DOMAIN mem' : ReadByte(mem', o) = ReadByte(mem, o)

=============================================================================
